---------------------------- MODULE Spec2Model ----------------------------
(***************************************************************************)
(* Model of the query-resolution pipeline of the LeanBot RAG backend:      *)
(*   src/rough/Day_21_A.py   configuration constants                       *)
(*   src/rough/Day_21_E.py   fuzzy answer cache (SQLite table `cache`)     *)
(*   src/rough/Day_21_C.py   scorer, small talk, orchestrator, regenerate  *)
(*   src/rough/Day_21_D.py   session loop and feedback handlers            *)
(*                                                                         *)
(* Text.  A Python str is modelled as a sequence of atoms.  Question texts *)
(* are sequences of single characters (substring tests and difflib work    *)
(* on characters).  Answer texts, source tags and messages are sequences   *)
(* of chunks: a chunk is a run of non-blank characters written as one      *)
(* atom, and a blank is the atom " ", so that str.strip(), emptiness and   *)
(* equality are computed as Python computes them.                          *)
(*                                                                         *)
(* Optional values.  None is the empty tuple and a present value x is the  *)
(* one-element tuple <<x>>.                                                *)
(*                                                                         *)
(* Floats.  Distances and the two thresholds are written in hundredths     *)
(* (0.65 is 65, 1.0 is 100); similarity ratios 2*M/T are compared as       *)
(* fractions by cross-multiplication.                                      *)
(***************************************************************************)
EXTENDS Integers, Sequences, FiniteSets, TLC

VARIABLES cache, trace, sess, turn, ratios

vars == <<cache, trace, sess, turn, ratios>>

-----------------------------------------------------------------------------
(* Generic helpers for text                                                *)

None == <<>>

Some(x) == <<x>>

Range(s) == {s[i] : i \in 1..Len(s)}

Min2(a, b) == IF a <= b THEN a ELSE b

Max2(a, b) == IF a >= b THEN a ELSE b

(* Python slicing s[:n] *)
Prefix(s, n) == SubSeq(s, 1, Min2(n, Len(s)))

(* Python `needle in haystack` for strings *)
Contains(hay, needle) ==
    \E i \in 0..(Len(hay) - Len(needle)) :
        \A k \in 1..Len(needle) : hay[i + k] = needle[k]

(* Python str.startswith *)
StartsWith(s, p) == Len(p) <= Len(s) /\ SubSeq(s, 1, Len(p)) = p

(* Python str.strip(): drop leading and trailing blanks *)
IsBlank(c) == c = " "

StripKept(s, keep) ==
    IF keep = {} THEN <<>>
    ELSE SubSeq(s, CHOOSE i \in keep : \A j \in keep : i <= j,
                   CHOOSE i \in keep : \A j \in keep : j <= i)

Strip(s) == StripKept(s, {i \in 1..Len(s) : ~IsBlank(s[i])})

(* Code-point order of the characters that occur in question texts *)
Alphabet ==
    <<" ", "?", "A", "B", "C", "D", "E", "F", "G", "H", "I", "J", "K", "L", "M",
      "N", "O", "P", "Q", "R", "S", "T", "U", "V", "W", "X", "Y", "Z",
      "a", "b", "c", "d", "e", "f", "g", "h", "i", "j", "k", "l", "m",
      "n", "o", "p", "q", "r", "s", "t", "u", "v", "w", "x", "y", "z">>

Ord(c) == CHOOSE i \in 1..Len(Alphabet) : Alphabet[i] = c

(* Python str.lower() on one character: "A".."Z" sit 26 places before "a".."z" *)
LowerAt(c, n) == IF n \in 3..28 THEN Alphabet[n + 26] ELSE c

LowerChar(c) == LowerAt(c, Ord(c))

Lower(s) == <<>> \o [i \in 1..Len(s) |-> LowerChar(s[i])]

(* Python str comparison a < b: lexicographic by code point *)
StrLess(a, b) ==
    \E i \in 1..(Min2(Len(a), Len(b)) + 1) :
        /\ \A k \in 1..(i - 1) : a[k] = b[k]
        /\ \/ i = Len(a) + 1 /\ i <= Len(b)
           \/ i <= Len(a) /\ i <= Len(b) /\ Ord(a[i]) < Ord(b[i])

-----------------------------------------------------------------------------
(* difflib.SequenceMatcher as used by get_close_matches (no junk, inputs   *)
(* shorter than 200 so autojunk is idle)                                   *)

(* length of the common run of a and b starting at a[i], b[j], inside the  *)
(* windows a[..ahi], b[..bhi] *)
RECURSIVE RunLen(_, _, _, _, _, _)
RunLen(a, b, i, j, ahi, bhi) ==
    IF i > ahi \/ j > bhi \/ a[i] # b[j] THEN 0
    ELSE 1 + RunLen(a, b, i + 1, j + 1, ahi, bhi)

(* find_longest_match on a[alo..ahi], b[blo..bhi] (inclusive, 1-based):    *)
(* the longest block, earliest in a, then earliest in b *)
FindLongestMatch(a, b, alo, ahi, blo, bhi) ==
    LET size == [i \in alo..ahi |-> [j \in blo..bhi |-> RunLen(a, b, i, j, ahi, bhi)]]
        sizes == {size[i][j] : i \in alo..ahi, j \in blo..bhi}
        k == CHOOSE x \in sizes : \A y \in sizes : y <= x
    IN  IF k = 0 THEN <<alo, blo, 0>>
        ELSE LET is == {i \in alo..ahi : \E j \in blo..bhi : size[i][j] = k}
                 i  == CHOOSE x \in is : \A y \in is : x <= y
                 js == {j \in blo..bhi : size[i][j] = k}
                 j  == CHOOSE x \in js : \A y \in js : x <= y
             IN  <<i, j, k>>

(* get_matching_blocks: total size of the matching blocks *)
RECURSIVE MatchCount(_, _, _, _, _, _)
MatchCount(a, b, alo, ahi, blo, bhi) ==
    IF alo > ahi \/ blo > bhi THEN 0
    ELSE LET m == FindLongestMatch(a, b, alo, ahi, blo, bhi)
         IN  IF m[3] = 0 THEN 0
             ELSE m[3]
                  + MatchCount(a, b, alo, m[1] - 1, blo, m[2] - 1)
                  + MatchCount(a, b, m[1] + m[3], ahi, m[2] + m[3], bhi)

(* ratio() = 2.0*M/T, kept as the fraction <<2*M, T>>; 1.0 when T = 0 *)
Ratio(a, b) ==
    IF Len(a) + Len(b) = 0 THEN <<1, 1>>
    ELSE <<2 * MatchCount(a, b, 1, Len(a), 1, Len(b)), Len(a) + Len(b)>>

FracLess(x, y) == x[1] * y[2] < y[1] * x[2]

FracEq(x, y) == x[1] * y[2] = y[1] * x[2]

-----------------------------------------------------------------------------
(* Configuration: src/rough/Day_21_A.py                                    *)

CACHE_MATCH_THRESHOLD == 85

UNCLEAR_QUERY_THRESHOLD == 65

MAX_CONVERSION_SCORE == 5

(* HIGH_INTENT_KEYWORDS: "demo", "pricing", "cost", "consulting",          *)
(* "training", "schedule", "quote", "trial", "implementation",             *)
(* "contact sales", "enquire" *)
HIGH_INTENT_KEYWORDS ==
    << <<"d","e","m","o">>,
       <<"p","r","i","c","i","n","g">>,
       <<"c","o","s","t">>,
       <<"c","o","n","s","u","l","t","i","n","g">>,
       <<"t","r","a","i","n","i","n","g">>,
       <<"s","c","h","e","d","u","l","e">>,
       <<"q","u","o","t","e">>,
       <<"t","r","i","a","l">>,
       <<"i","m","p","l","e","m","e","n","t","a","t","i","o","n">>,
       <<"c","o","n","t","a","c","t"," ","s","a","l","e","s">>,
       <<"e","n","q","u","i","r","e">> >>

(* A language code is a text of atoms: "en" is <<"en">>, "ERROR-hi" is      *)
(* <<"ERROR", "-", "hi">> *)
DEFAULT_LANGUAGE == <<"en">>

(* "hi", one of SUPPORTED_LANGUAGES *)
HINDI == <<"hi">>

LANGUAGE_FAIL_MESSAGE ==
    <<"Sorry, I encountered an issue with language translation. Please try again in English or another supported language.">>

FINAL_FALLBACK_MESSAGE ==
    <<"I've checked our internal knowledge base, but I couldn't find a definitive answer to your question right now. Please try rephrasing.">>

UNCLEAR_QUERY_RESPONSE ==
    <<"I'm not entirely sure what you meant. Did you mean one of these?">>

(* SMALL_TALK_TRIGGERS in declaration order: "how are you", "who are you", *)
(* "what can you do", "your name", "tell me a joke", "hello" *)
SMALL_TALK_TRIGGERS ==
    << [key      |-> <<"h","o","w"," ","a","r","e"," ","y","o","u">>,
        response |-> <<"I'm doing great, thanks for asking! I'm here to help you navigate Leanext's services.">>],
       [key      |-> <<"w","h","o"," ","a","r","e"," ","y","o","u">>,
        response |-> <<"I'm LeanBot, your AI assistant from Leanext Consulting - here to answer questions and guide you through our programs.">>],
       [key      |-> <<"w","h","a","t"," ","c","a","n"," ","y","o","u"," ","d","o">>,
        response |-> <<"I can answer your questions about Leanext's services, provide information about our training programs, and find relevant links for you!">>],
       [key      |-> <<"y","o","u","r"," ","n","a","m","e">>,
        response |-> <<"You can call me LeanBot">>],
       [key      |-> <<"t","e","l","l"," ","m","e"," ","a"," ","j","o","k","e">>,
        response |-> <<"Sure! Why did the data scientist go broke? Because he lost all his cache!">>],
       [key      |-> <<"h","e","l","l","o">>,
        response |-> <<"Hello! It's wonderful to meet you. How can I assist you with Leanext Consulting today?">>] >>

-----------------------------------------------------------------------------
(* Question texts used as inputs                                           *)

(* "what is lean six sig" *)
Q_SIG ==
    <<"w","h","a","t"," ","i","s"," ","l","e","a","n"," ","s","i","x"," ","s","i","g">>

(* "what is lean six sigm": ratio 40/41 to Q_SIG *)
Q_SIGM ==
    <<"w","h","a","t"," ","i","s"," ","l","e","a","n"," ","s","i","x"," ","s","i","g","m">>

(* "what is lean six sigx": ratio 40/41 to Q_SIG, and "sigx" > "sigm" *)
Q_SIGX ==
    <<"w","h","a","t"," ","i","s"," ","l","e","a","n"," ","s","i","x"," ","s","i","g","x">>

(* "whzt is lezn six zig": ratio 34/40 = 0.85 to Q_SIG, 34/41 to the others *)
Q_AT ==
    <<"w","h","z","t"," ","i","s"," ","l","e","z","n"," ","s","i","x"," ","z","i","g">>

(* "whzt iz lezn six zig": ratio 32/40 = 0.80 to Q_SIG *)
Q_BELOW ==
    <<"w","h","z","t"," ","i","z"," ","l","e","z","n"," ","s","i","x"," ","z","i","g">>

(* "hello there" *)
Q_HELLO == <<"h","e","l","l","o"," ","t","h","e","r","e">>

(* "lean kya hai", a query the detector reports as Hindi *)
Q_HINDI == <<"l","e","a","n"," ","k","y","a"," ","h","a","i">>

(* "Hello who are you": holds the second and the sixth small-talk trigger *)
Q_WHO == <<"H","e","l","l","o"," ","w","h","o"," ","a","r","e"," ","y","o","u">>

(* "demo about": a high-intent keyword and a general-intent word *)
Q_DEMO == <<"d","e","m","o"," ","a","b","o","u","t">>

(* "about us": a general-intent word only *)
Q_ABOUT == <<"a","b","o","u","t"," ","u","s">>

(* Answer texts and source tags written by callers of the cache *)
A1 == <<"Lean", " ", "Six", " ", "Sigma", " ", "removes", " ", "waste.">>

A2 == <<"Lean", " ", "Six", " ", "Sigma", " ", "is", " ", "a", " ", "method.">>

URL1 == <<"https://leanextconsulting.com/", "sixsigma">>

RAG == <<"RAG">>

(* Every question text the specifications draw.  The variable `ratios`    *)
(* holds the SequenceMatcher ratios of these texts: Ratio computes them    *)
(* when the model starts, Similarity reads them back, no action changes    *)
(* them. *)
QuestionTexts == {Q_SIG, Q_SIGM, Q_SIGX, Q_AT, Q_BELOW, Q_HELLO, Q_HINDI, Q_DEMO, Q_ABOUT, Q_WHO}

RatioTable == [x \in QuestionTexts |-> [y \in QuestionTexts |-> Ratio(x, y)]]

(* SequenceMatcher(a = x, b = word).ratio() *)
Similarity(x, word) == ratios[x][word]

-----------------------------------------------------------------------------
(* The fuzzy answer cache: src/rough/Day_21_E.py.  The table `cache` is a  *)
(* sequence of rows in rowid order; `query` carries a UNIQUE constraint.   *)

Row(q, a, s) == [query |-> q, answer |-> a, source |-> s]

HasRow(c, q) == \E i \in 1..Len(c) : c[i].query = q

(* a cutoff test that rejects a ratio equal to the cutoff *)
AboveCutoffStrict(x, word) ==
    FracLess(<<CACHE_MATCH_THRESHOLD, 100>>, Similarity(x, word))

(* cutoff test of get_close_matches: ratio() >= cutoff.  real_quick_ratio  *)
(* and quick_ratio are upper bounds of ratio, so the three-way conjunction *)
(* of the library is this test. *)
AboveCutoff(x, word) ==
    ~FracLess(Similarity(x, word), <<CACHE_MATCH_THRESHOLD, 100>>)

(* heapq.nlargest over the pairs (ratio, x): larger ratio first, then the  *)
(* larger string *)
ScoredLess(x, y, word) ==
    \/ FracLess(Similarity(x, word), Similarity(y, word))
    \/ FracEq(Similarity(x, word), Similarity(y, word)) /\ StrLess(x, y)

(* a lookup that returns the first stored question above the cutoff, in   *)
(* table order, instead of the best one *)
get_close_matches_first(word, possibilities) ==
    LET idx == {i \in 1..Len(possibilities) :
                   ~FracLess(Similarity(possibilities[i], word),
                             <<CACHE_MATCH_THRESHOLD, 100>>)}
    IN  IF idx = {} THEN None
        ELSE Some(possibilities[CHOOSE i \in idx : \A j \in idx : i <= j])

(* difflib.get_close_matches(word, possibilities, n=1, cutoff): the list   *)
(* of best matches, here None or one string *)
get_close_matches(word, possibilities) ==
    LET cand == {x \in Range(possibilities) : AboveCutoff(x, word)}
    IN  IF cand = {} THEN None
        ELSE Some(CHOOSE x \in cand : \A y \in cand : ~ScoredLess(x, y, word))

(* SELECT answer, source FROM cache WHERE query = ?; fetchone(), and the    *)
(* tuple returned on a hit *)
FetchOne(c, matched_query, hits) ==
    IF hits = {} THEN None
    ELSE <<c[CHOOSE i \in hits : \A j \in hits : i <= j].answer,
           c[CHOOSE i \in hits : \A j \in hits : i <= j].source,
           matched_query>>

(* if matches: matched_query = matches[0] ... *)
FetchMatch(c, matches) ==
    IF matches = None THEN None
    ELSE FetchOne(c, matches[1], {i \in 1..Len(c) : c[i].query = matches[1]})

(* get_cached_answer(query): None, or (answer, source, matched_query) *)
get_cached_answer(c, query) ==
    IF Len(c) = 0 THEN None
    ELSE FetchMatch(c, get_close_matches(query, [i \in 1..Len(c) |-> c[i].query]))

(* an INSERT into a table without the UNIQUE constraint on query *)
save_answer_to_cache_plain(c, query, answer, source) == Append(c, Row(query, answer, source))

(* save_answer_to_cache: INSERT OR IGNORE INTO cache (query, answer,       *)
(* source); a row whose query already exists makes the insert a no-op *)
save_answer_to_cache(c, query, answer, source) ==
    IF HasRow(c, query) THEN c
    ELSE Append(c, Row(query, answer, source))

(* an update that inserts the row when no row matches (an upsert) *)
update_cached_answer_upsert(c, query, new_answer, new_source) ==
    [ok    |-> TRUE,
     cache |-> IF \E i \in 1..Len(c) : c[i].query = query
               THEN [i \in 1..Len(c) |->
                        IF c[i].query = query
                        THEN [query |-> query, answer |-> new_answer, source |-> new_source]
                        ELSE c[i]]
               ELSE Append(c, [query |-> query, answer |-> new_answer, source |-> new_source])]

(* update_cached_answer: UPDATE cache SET answer, source WHERE query = ?;  *)
(* returns rowcount > 0 *)
update_cached_answer(c, query, new_answer, new_source) ==
    LET rows_affected == Cardinality({i \in 1..Len(c) : c[i].query = query})
    IN  [ok    |-> rows_affected > 0,
         cache |-> [i \in 1..Len(c) |->
                       IF c[i].query = query
                       THEN Row(query, new_answer, new_source)
                       ELSE c[i]]]

-----------------------------------------------------------------------------
(* Conversion scorer: src/rough/Day_21_C.py                                *)

(* "leanmaster", "sixsigma", "software", "capabilities", "about" *)
general_intent_words ==
    << <<"l","e","a","n","m","a","s","t","e","r">>,
       <<"s","i","x","s","i","g","m","a">>,
       <<"s","o","f","t","w","a","r","e">>,
       <<"c","a","p","a","b","i","l","i","t","i","e","s">>,
       <<"a","b","o","u","t">> >>

ContainsAny(text, words) == \E i \in 1..Len(words) : Contains(text, words[i])

(* a scorer without the floor of step 1 *)
calculate_conversion_score_nofloor(user_query, current_score) ==
    IF user_query = <<>> THEN current_score
    ELSE LET normalized_query == Lower(user_query)
             high == IF ContainsAny(normalized_query, HIGH_INTENT_KEYWORDS)
                     THEN Min2(current_score + 2, MAX_CONVERSION_SCORE)
                     ELSE current_score
             gen  == IF high < MAX_CONVERSION_SCORE
                        /\ ContainsAny(normalized_query, general_intent_words)
                     THEN Min2(high + 1, MAX_CONVERSION_SCORE)
                     ELSE high
         IN  Min2(gen, MAX_CONVERSION_SCORE)

(* a scorer that sets the floor instead of raising to it *)
calculate_conversion_score_reset(user_query, current_score) ==
    IF user_query = <<>> THEN current_score
    ELSE LET normalized_query == Lower(user_query)
             base == 2
             high == IF ContainsAny(normalized_query, HIGH_INTENT_KEYWORDS)
                     THEN Min2(base + 2, MAX_CONVERSION_SCORE)
                     ELSE base
             gen  == IF high < MAX_CONVERSION_SCORE
                        /\ ContainsAny(normalized_query, general_intent_words)
                     THEN Min2(high + 1, MAX_CONVERSION_SCORE)
                     ELSE high
         IN  Min2(gen, MAX_CONVERSION_SCORE)

(* calculate_conversion_score(user_query, current_score) *)
calculate_conversion_score(user_query, current_score) ==
    IF user_query = <<>> THEN current_score
    ELSE LET normalized_query == Lower(user_query)
             (* 1. floor for any non-empty query *)
             base == Max2(current_score, 2)
             (* 2. first high-intent keyword found: +2, capped *)
             high == IF ContainsAny(normalized_query, HIGH_INTENT_KEYWORDS)
                     THEN Min2(base + 2, MAX_CONVERSION_SCORE)
                     ELSE base
             (* 3. general-intent word, tested whenever the score is below the cap *)
             gen  == IF high < MAX_CONVERSION_SCORE
                        /\ ContainsAny(normalized_query, general_intent_words)
                     THEN Min2(high + 1, MAX_CONVERSION_SCORE)
                     ELSE high
         IN  Min2(gen, MAX_CONVERSION_SCORE)

-----------------------------------------------------------------------------
(* Outcomes of calls to collaborators (translation service, cleaning and   *)
(* generation model, vector index): the call returns a value or raises     *)

Returned(x) == [kind |-> "return", value |-> x]

Raised(exc) == [kind |-> "raise", exc |-> exc]

NotCalled == [kind |-> "not called"]

(* str.split(sep): the list of fields; the k-th field lies between the     *)
(* (k-1)-th and the k-th occurrence of sep *)
Split(s, sep) ==
    LET at == {i \in 1..Len(s) : s[i] = sep}
        pos(k) == IF k = 0 THEN 0
                  ELSE IF k > Cardinality(at) THEN Len(s) + 1
                  ELSE CHOOSE i \in at : Cardinality({j \in at : j < i}) = k - 1
    IN  [k \in 1..(Cardinality(at) + 1) |-> SubSeq(s, pos(k - 1) + 1, pos(k) - 1)]

-----------------------------------------------------------------------------
(* Language bridge: src/rough/language_middleware2.py                      *)

(* translate(text, src, dest); `service` is the outcome of the googletrans *)
(* call *)
translate(text, src, dest, service) ==
    LET normalized == Strip(text)
    IN  IF normalized = <<>> \/ src = dest THEN normalized
        ELSE IF service.kind = "return" THEN service.value
        ELSE normalized

(* to_english(text) -> (english text, language code); detected_lang_code   *)
(* is the result of detect_language and `translated` the outcome of the    *)
(* call self.translate(text, src=detected_lang_code, dest='en') *)
to_english(text, detected_lang_code, translated) ==
    IF detected_lang_code = DEFAULT_LANGUAGE THEN <<text, DEFAULT_LANGUAGE>>
    ELSE IF translated.kind = "return" THEN <<translated.value, detected_lang_code>>
    ELSE <<text, <<"ERROR", "-">> \o detected_lang_code>>

(* from_english(text, dest_lang); `translated` is the outcome of the call  *)
(* self.translate(text, src='auto', dest=dest_lang) *)
from_english(text, dest_lang, translated) ==
    IF dest_lang = DEFAULT_LANGUAGE \/ dest_lang = <<>> THEN text
    ELSE IF translated.kind = "return" THEN translated.value
    ELSE LANGUAGE_FAIL_MESSAGE

(* what the translation service makes of a text: a text in the other       *)
(* language, different from its input *)
ServiceText(text, dest) == dest \o <<":">> \o text

(* the call self.translate(...) as the two bridge methods see it: `how`    *)
(* is "service ok", "service down" (handled inside translate) or "raise"   *)
(* (an exception leaves translate) *)
TranslateCall(how, text, src, dest, reply) ==
    IF how = "raise" THEN Raised("Exception")
    ELSE Returned(translate(text, src, dest,
                            IF how = "service ok" THEN Returned(reply)
                            ELSE Raised("Exception")))

-----------------------------------------------------------------------------
(* Small talk, cleaning, retrieval: src/rough/Day_21_C.py                  *)

(* a lookup in which the last matching trigger of the table wins *)
check_small_talk_last(query) ==
    LET normalized_query == Lower(query)
        hits == {i \in 1..Len(SMALL_TALK_TRIGGERS) :
                    Contains(normalized_query, SMALL_TALK_TRIGGERS[i].key)}
    IN  IF hits = {} THEN None
        ELSE Some(SMALL_TALK_TRIGGERS[CHOOSE i \in hits : \A j \in hits : i >= j].response)

(* check_small_talk(query): the response of the first trigger, in table    *)
(* order, whose key occurs in the lower-cased query, or None *)
check_small_talk(query) ==
    LET normalized_query == Lower(query)
        hits == {i \in 1..Len(SMALL_TALK_TRIGGERS) :
                    Contains(normalized_query, SMALL_TALK_TRIGGERS[i].key)}
    IN  IF hits = {} THEN None
        ELSE Some(SMALL_TALK_TRIGGERS[CHOOSE i \in hits : \A j \in hits : i <= j].response)

(* the reply of the model carries no candidate text *)
NoText == [kind |-> "no text"]

(* clean_query_with_gemini(raw_query)[0]; `reply` is the outcome of the    *)
(* request: it raised, or it returned the text of the first candidate *)
clean_query_with_gemini(raw_query, reply) ==
    IF reply.kind = "return" THEN Strip(reply.value)
    ELSE IF reply.kind = "no text" THEN Strip(raw_query)
    ELSE raw_query

(* one result of the vector index: its metadata and its distance *)
Hit(canonical, dist) == [metadata |-> [canonical |-> canonical], distance |-> dist]

(* a retrieval that reports distance 0.0 when it has nothing *)
retrieve_context_zero(reply) ==
    IF reply.kind # "return" \/ reply.value = <<>> THEN <<None, 0, <<>>>>
    ELSE <<Some("context"),
           reply.value[1].distance,
           [i \in 1..Len(reply.value) |-> reply.value[i].metadata]>>

(* retrieve_context(query, collection) -> (context, best distance,         *)
(* metadata list); `reply` is the outcome of collection.query: it raised,  *)
(* or it returned a list of hits, best first.  The context is kept only    *)
(* as present or absent. *)
retrieve_context(reply) ==
    IF reply.kind # "return" \/ reply.value = <<>> THEN <<None, 100, <<>>>>
    ELSE <<Some("context"),
           reply.value[1].distance,
           [i \in 1..Len(reply.value) |-> reply.value[i].metadata]>>

-----------------------------------------------------------------------------
(* The orchestrator: answer_query_with_cache_first, src/rough/Day_21_C.py  *)

(* source tags; the elapsed time printed in the "Gemini API" tag is fixed  *)
TranslationErrorTag == <<"Translation", " ", "Error">>

SmallTalkTag == <<"Small", " ", "Talk", " ", "Response">>

UnclearQueryTag == <<"Unclear", " ", "Query">>

GeminiErrorTag == <<"Gemini", " ", "Error">>

GeminiApiTag == <<"Gemini", " ", "API", " ", "(Fetch:", " ", "0.0s)">>

CacheHitPrefix == <<"Cache", " ", "HIT">>

(* a tag that shows the whole stored question *)
CacheHitTagFull(matched_query) ==
    CacheHitPrefix \o <<" ", "(Matched:", " ", "'">> \o matched_query \o <<"...')">>

(* f"Cache HIT (Matched: '{matched_query[:20]}...')" *)
CacheHitTag(matched_query) ==
    CacheHitPrefix \o <<" ", "(Matched:", " ", "'">> \o Prefix(matched_query, 20) \o <<"...')">>

(* the 8-tuple every answer function returns *)
Outcome(answer_text, source, distance, top_k_metadata_list, is_unclear, llm_raw, detected_lang_code, conversion_score) ==
    [answer_text         |-> answer_text,
     source              |-> source,
     distance            |-> distance,
     top_k_metadata_list |-> top_k_metadata_list,
     is_unclear          |-> is_unclear,
     llm_raw             |-> llm_raw,
     detected_lang_code  |-> detected_lang_code,
     conversion_score    |-> conversion_score]

(* a gate that lets every language code through *)
TranslationFailedNever(detected_lang_code) == FALSE

(* detected_lang_code.startswith("ERROR") *)
TranslationFailed(detected_lang_code) == StartsWith(detected_lang_code, <<"ERROR">>)

(* a gate that also stops a distance equal to the threshold *)
UnclearGateInclusive(distance) ==
    distance # None /\ distance[1] >= UNCLEAR_QUERY_THRESHOLD

(* distance is not None and distance > UNCLEAR_QUERY_THRESHOLD *)
UnclearGate(distance) ==
    distance # None /\ distance[1] > UNCLEAR_QUERY_THRESHOLD

(* a write condition that looks at the source tag only *)
MayCacheAnyReply(source, final_english_answer) ==
    ~StartsWith(source, GeminiErrorTag)

(* not source.startswith("Gemini Error") and                               *)
(* final_english_answer != FINAL_FALLBACK_MESSAGE *)
MayCache(source, final_english_answer) ==
    ~StartsWith(source, GeminiErrorTag) /\ final_english_answer # FINAL_FALLBACK_MESSAGE

(* a generation step whose handlers leave the answer empty *)
GenerateNoFallback(reply) ==
    IF reply.kind = "return"
    THEN [answer |-> Strip(reply.value), source |-> GeminiApiTag]
    ELSE IF reply.kind = "no text"
    THEN [answer |-> Strip(FINAL_FALLBACK_MESSAGE), source |-> GeminiApiTag]
    ELSE [answer |-> <<>>, source |-> GeminiErrorTag]

(* the generation step: try / except around the request *)
Generate(reply) ==
    IF reply.kind = "return"
    THEN [answer |-> Strip(reply.value), source |-> GeminiApiTag]
    ELSE IF reply.kind = "no text"
    THEN [answer |-> Strip(FINAL_FALLBACK_MESSAGE), source |-> GeminiApiTag]
    ELSE [answer |-> FINAL_FALLBACK_MESSAGE, source |-> GeminiErrorTag]

(* top_k_metadata_list[0].get('canonical', 'RAG') if top_k_metadata_list   *)
(* else 'RAG' *)
CacheSourceTag(top_k_metadata_list) ==
    IF top_k_metadata_list # <<>> /\ top_k_metadata_list[1].canonical # None
    THEN top_k_metadata_list[1].canonical[1]
    ELSE RAG

(* what one call leaves behind: the outcome, the table, the calls made in  *)
(* order, the pivot query, the cleaned question and the row handed to      *)
(* save_answer_to_cache *)
Done(out, c, calls, english_query, cleaned, saved) ==
    [out |-> out, cache |-> c, calls |-> calls,
     english_query |-> english_query, cleaned |-> cleaned, saved |-> saved]

(* language_translator.from_english(text, detected_lang_code); e.from_en   *)
(* says how its translate call ends *)
TranslateBack(e, text, detected_lang_code) ==
    from_english(text, detected_lang_code,
                 TranslateCall(e.from_en, text, <<"auto">>, detected_lang_code,
                               ServiceText(Strip(text), detected_lang_code)))

(* from_english(text, code) if code != DEFAULT_LANGUAGE else text *)
ToUserLanguage(e, text, detected_lang_code) ==
    IF detected_lang_code # DEFAULT_LANGUAGE
    THEN TranslateBack(e, text, detected_lang_code)
    ELSE text

CallsToUserLanguage(calls, detected_lang_code) ==
    IF detected_lang_code # DEFAULT_LANGUAGE THEN Append(calls, "from_english") ELSE calls

(* The function body, step by step.  t holds the values fixed by steps 1   *)
(* and 2: new_conversion_score, english_query, detected_lang_code.         *)

(* 9. final answer translation, and the return statement *)
FinalTranslation(c, e, t, calls, cleaned_english_question, distance, top_k_metadata_list, is_unclear, source, final_english_answer, saved) ==
    Done(Outcome(IF final_english_answer # <<>>
                 THEN ToUserLanguage(e, final_english_answer, t.detected_lang_code)
                 ELSE TranslateBack(e, UNCLEAR_QUERY_RESPONSE, t.detected_lang_code),
                 source, distance, top_k_metadata_list, is_unclear,
                 Some(final_english_answer), t.detected_lang_code, t.new_conversion_score),
         c,
         IF final_english_answer # <<>>
         THEN CallsToUserLanguage(calls, t.detected_lang_code)
         ELSE Append(calls, "from_english"),
         t.english_query, Some(cleaned_english_question), saved)

(* 8. post-processing: the cache write *)
CacheWrite(c, e, t, calls, cleaned_english_question, distance, top_k_metadata_list, source, final_english_answer) ==
    IF MayCache(source, final_english_answer)
    THEN FinalTranslation(save_answer_to_cache(c, cleaned_english_question, final_english_answer,
                                               CacheSourceTag(top_k_metadata_list)),
                          e, t, Append(calls, "save_answer_to_cache"),
                          cleaned_english_question, distance, top_k_metadata_list,
                          FALSE, source, final_english_answer,
                          Some(Row(cleaned_english_question, final_english_answer,
                                   CacheSourceTag(top_k_metadata_list))))
    ELSE FinalTranslation(c, e, t, calls, cleaned_english_question, distance,
                          top_k_metadata_list, FALSE, source, final_english_answer, None)

(* a gate whose unclear branch leaves is_unclear at its initial value *)
GateAndGenerateUnflagged(c, e, t, calls, cleaned_english_question, distance, top_k_metadata_list) ==
    IF UnclearGate(distance)
    THEN FinalTranslation(c, e, t, calls, cleaned_english_question, distance,
                          top_k_metadata_list, FALSE, UnclearQueryTag,
                          UNCLEAR_QUERY_RESPONSE, None)
    ELSE CacheWrite(c, e, t, Append(calls, "generate"), cleaned_english_question, distance,
                    top_k_metadata_list,
                    Generate(e.generation).source, Generate(e.generation).answer)

(* the unclear gate, then 7. generation *)
GateAndGenerate(c, e, t, calls, cleaned_english_question, distance, top_k_metadata_list) ==
    IF UnclearGate(distance)
    THEN FinalTranslation(c, e, t, calls, cleaned_english_question, distance,
                          top_k_metadata_list, TRUE, UnclearQueryTag,
                          UNCLEAR_QUERY_RESPONSE, None)
    ELSE CacheWrite(c, e, t, Append(calls, "generate"), cleaned_english_question, distance,
                    top_k_metadata_list,
                    Generate(e.generation).source, Generate(e.generation).answer)

(* 5. clean and 6. retrieve *)
CleanAndRetrieve(c, e, t, calls, cleaned_english_question, retrieved) ==
    GateAndGenerate(c, e, t, calls \o <<"clean_query_with_gemini", "retrieve_context">>,
                    cleaned_english_question, Some(retrieved[2]), retrieved[3])

(* a cache check whose hit returns the score of a fresh session *)
CheckCacheUnscored(c, e, t, calls, cached) ==
    IF cached # None
    THEN Done(Outcome(ToUserLanguage(e, cached[1], t.detected_lang_code),
                      CacheHitTag(cached[3]), None, <<>>, FALSE,
                      Some(cached[1]), t.detected_lang_code, 1),
              c, CallsToUserLanguage(calls, t.detected_lang_code),
              t.english_query, None, None)
    ELSE CleanAndRetrieve(c, e, t, calls,
                          clean_query_with_gemini(t.english_query, e.clean),
                          retrieve_context(e.retrieval))

(* 4. check the cache *)
CheckCache(c, e, t, calls, cached) ==
    IF cached # None
    THEN Done(Outcome(ToUserLanguage(e, cached[1], t.detected_lang_code),
                      CacheHitTag(cached[3]), None, <<>>, FALSE,
                      Some(cached[1]), t.detected_lang_code, t.new_conversion_score),
              c, CallsToUserLanguage(calls, t.detected_lang_code),
              t.english_query, None, None)
    ELSE CleanAndRetrieve(c, e, t, calls,
                          clean_query_with_gemini(t.english_query, e.clean),
                          retrieve_context(e.retrieval))

(* 3. check small talk *)
CheckSmallTalk(c, e, t, calls, smalltalk_response) ==
    IF smalltalk_response # None /\ smalltalk_response[1] # <<>>
    THEN Done(Outcome(ToUserLanguage(e, smalltalk_response[1], t.detected_lang_code),
                      SmallTalkTag, None, <<>>, FALSE,
                      smalltalk_response, t.detected_lang_code, t.new_conversion_score),
              c, CallsToUserLanguage(calls, t.detected_lang_code),
              t.english_query, None, None)
    ELSE CheckCache(c, e, t, Append(calls, "get_cached_answer"),
                    get_cached_answer(c, t.english_query))

(* the translation gate *)
HandleTranslation(c, e, new_conversion_score, bridged) ==
    IF TranslationFailed(bridged[2])
    THEN Done(Outcome(LANGUAGE_FAIL_MESSAGE, TranslationErrorTag, Some(100), <<>>, TRUE,
                      None, Split(bridged[2], "-")[2], new_conversion_score),
              c, <<"calculate_conversion_score", "to_english">>, bridged[1], None, None)
    ELSE CheckSmallTalk(c, e,
                        [new_conversion_score |-> new_conversion_score,
                         english_query        |-> bridged[1],
                         detected_lang_code   |-> bridged[2]],
                        <<"calculate_conversion_score", "to_english", "check_small_talk">>,
                        check_small_talk(bridged[1]))

(* answer_query_with_cache_first(raw_query, collection, current_score,     *)
(* history_queries) on the table c: 1. score, 2. translate, then the steps *)
(* above.  e holds the outcomes of the calls the turn makes to the         *)
(* outside: e.lang (detected language), e.to_en and e.english              *)
(* (translation to English), e.clean, e.retrieval, e.generation            *)
(* (replies), e.from_en (translation back).  The history string only       *)
(* enters the text sent to the vector index. *)
answer_query_with_cache_first(raw_query, current_score, c, e) ==
    HandleTranslation(c, e,
                      calculate_conversion_score(raw_query, current_score),
                      to_english(raw_query, e.lang,
                                 TranslateCall(e.to_en, raw_query, e.lang,
                                               DEFAULT_LANGUAGE, e.english)))

-----------------------------------------------------------------------------
(* SpecCache: the three cache operations applied in any order to a cache   *)
(* that starts empty; `trace` records each call with the table before it   *)
(* and the value it returned.                                              *)

MaxOps == 3

StoredQs == {Q_SIG, Q_SIGM, Q_SIGX}

ProbeQs == StoredQs \cup {Q_AT, Q_BELOW}

CacheAnswers == {A1, A2}

CacheSources == {URL1, RAG}

Call(fn, q, a, s, pre, ret) ==
    [fn |-> fn, q |-> q, a |-> a, s |-> s, pre |-> pre, ret |-> ret]

(* init_session_state: the session fields the chat loop reads and writes *)
NoSess ==
    [messages |-> <<>>, greeted |-> FALSE, regenerate_index |-> -1,
     feedback |-> <<>>, conversion_score |-> 1]

NoTurn == [fn |-> "none"]

InitCache ==
    /\ cache = <<>>
    /\ trace = <<>>
    /\ sess = NoSess
    /\ turn = NoTurn
    /\ ratios = RatioTable

CacheSave ==
    /\ Len(trace) < MaxOps
    /\ \E q \in StoredQs, a \in CacheAnswers, s \in CacheSources :
          /\ cache' = save_answer_to_cache(cache, q, a, s)
          /\ trace' = Append(trace, Call("save", q, a, s, cache, None))
    /\ UNCHANGED <<sess, turn, ratios>>

CacheGet ==
    /\ Len(trace) < MaxOps
    /\ \E q \in ProbeQs :
          trace' = Append(trace, Call("get", q, None, None, cache,
                                      get_cached_answer(cache, q)))
    /\ UNCHANGED <<cache, sess, turn, ratios>>

CacheUpdate ==
    /\ Len(trace) < MaxOps
    /\ \E q \in StoredQs, a \in CacheAnswers, s \in CacheSources :
          LET r == update_cached_answer(cache, q, a, s)
          IN  /\ cache' = r.cache
              /\ trace' = Append(trace, Call("update", q, a, s, cache, Some(r.ok)))
    /\ UNCHANGED <<sess, turn, ratios>>

NextCache == CacheSave \/ CacheGet \/ CacheUpdate

SpecCache == InitCache /\ [][NextCache]_vars

-----------------------------------------------------------------------------
(* Properties of the cache, checked under SpecCache                        *)

(* the table as the n-th call of the trace left it *)
PostCache(n) == IF n < Len(trace) THEN trace[n + 1].pre ELSE cache

RowsFor(c, q) == {i \in 1..Len(c) : c[i].query = q}

(* 100 * ratio >= 85, on the fraction <<2M, T>> *)
RatioAtLeastThreshold(x, word) ==
    100 * Similarity(x, word)[1] >= CACHE_MATCH_THRESHOLD * Similarity(x, word)[2]

(* C6 (as claimed): save(q,a1,s1); save(q,a2,s2); get(q) returns          *)
(* (a2, s2, q), the last write, and the table holds exactly one row for q. *)
C6_UpsertLastWriteWins ==
    \A n \in 3..Len(trace) :
        ( /\ trace[n - 2].fn = "save"
          /\ trace[n - 1].fn = "save"
          /\ trace[n].fn = "get"
          /\ trace[n - 1].q = trace[n - 2].q
          /\ trace[n].q = trace[n - 2].q )
        => /\ trace[n].ret = <<trace[n - 1].a, trace[n - 1].s, trace[n].q>>
           /\ Cardinality(RowsFor(trace[n].pre, trace[n].q)) = 1

(* C7: for a table that does not hold q, save(q,a,s) followed at once by   *)
(* get(q) returns (a, s, q), whatever fuzzy neighbours of q are stored.    *)
C7_RoundTrip ==
    \A n \in 2..Len(trace) :
        ( /\ trace[n - 1].fn = "save"
          /\ ~HasRow(trace[n - 1].pre, trace[n - 1].q)
          /\ trace[n].fn = "get"
          /\ trace[n].q = trace[n - 1].q )
        => trace[n].ret = <<trace[n - 1].a, trace[n - 1].s, trace[n].q>>

(* C7 witness: a round trip made while an earlier-stored, different        *)
(* question lies above the threshold for q. *)
C7_Witness ==
    \E n \in 2..Len(trace) :
        /\ trace[n - 1].fn = "save"
        /\ ~HasRow(trace[n - 1].pre, trace[n - 1].q)
        /\ trace[n].fn = "get"
        /\ trace[n].q = trace[n - 1].q
        /\ \E i \in 1..Len(trace[n - 1].pre) :
              /\ trace[n - 1].pre[i].query # trace[n].q
              /\ RatioAtLeastThreshold(trace[n - 1].pre[i].query, trace[n].q)
        /\ trace[n].ret # None

(* C8: get returns none iff no stored question has ratio >= 0.85 to the    *)
(* input; otherwise it returns a stored question of highest ratio, with    *)
(* that row's answer and source, the third component being the stored      *)
(* question. *)
C8_FuzzyThreshold ==
    \A n \in 1..Len(trace) :
        trace[n].fn = "get" =>
            LET c   == trace[n].pre
                q   == trace[n].q
                ret == trace[n].ret
            IN  /\ (ret = None) <=>
                      ~\E i \in 1..Len(c) : RatioAtLeastThreshold(c[i].query, q)
                /\ ret # None =>
                      \E i \in 1..Len(c) :
                          /\ ret = <<c[i].answer, c[i].source, c[i].query>>
                          /\ RatioAtLeastThreshold(c[i].query, q)
                          /\ \A j \in 1..Len(c) :
                                ~FracLess(Similarity(c[i].query, q),
                                          Similarity(c[j].query, q))

(* C8 witness: a hit at a ratio of exactly 0.85 that reports the stored    *)
(* question, not the input, and a miss below the threshold on the same     *)
(* table. *)
C8_Witness ==
    \E n \in 1..Len(trace), m \in 1..Len(trace) :
        /\ trace[n].fn = "get"
        /\ trace[n].ret # None
        /\ trace[n].ret[3] # trace[n].q
        /\ FracEq(Similarity(trace[n].ret[3], trace[n].q), <<CACHE_MATCH_THRESHOLD, 100>>)
        /\ trace[m].fn = "get"
        /\ trace[m].pre = trace[n].pre
        /\ trace[m].ret = None

(* C9: update(q,a,s) returns true iff a row with question q existed; then  *)
(* that row becomes (q,a,s) and every other row is unchanged; otherwise    *)
(* the table is unchanged and no row is created.                           *)
C9_TargetedUpdate ==
    \A n \in 1..Len(trace) :
        trace[n].fn = "update" =>
            LET pre  == trace[n].pre
                post == PostCache(n)
                q    == trace[n].q
            IN  /\ trace[n].ret = Some(RowsFor(pre, q) # {})
                /\ Len(post) = Len(pre)
                /\ \A i \in 1..Len(pre) :
                      IF pre[i].query = q
                      THEN post[i] = Row(q, trace[n].a, trace[n].s)
                      ELSE post[i] = pre[i]

(* C9 witness: one update that hits a row of a two-row table and changes   *)
(* it, and one that finds no row. *)
C9_Witness ==
    \E n \in 1..Len(trace) :
        /\ trace[n].fn = "update"
        /\ trace[n].ret = Some(TRUE)
        /\ Len(trace[n].pre) = 2
        /\ PostCache(n) # trace[n].pre

-----------------------------------------------------------------------------
(* SpecScore: calculate_conversion_score applied to every query text of    *)
(* ScoreQueries and every current score of 1..MAX_CONVERSION_SCORE         *)

(* each keyword alone, then: "", "hi", "lean", "DEMO", "About us",         *)
(* "demo about", "Pricing of software", "book a Trial", Q_SIG *)
ScoreQueries ==
    Range(HIGH_INTENT_KEYWORDS) \cup Range(general_intent_words) \cup
    { <<>>,
      <<"h","i">>,
      <<"l","e","a","n">>,
      <<"D","E","M","O">>,
      <<"A","b","o","u","t"," ","u","s">>,
      <<"d","e","m","o"," ","a","b","o","u","t">>,
      <<"P","r","i","c","i","n","g"," ","o","f"," ","s","o","f","t","w","a","r","e">>,
      <<"b","o","o","k"," ","a"," ","T","r","i","a","l">>,
      <<"w","h","a","t"," ","i","s"," ","l","e","a","n"," ","s","i","x"," ","s","i","g">> }

Scores == 1..MAX_CONVERSION_SCORE

ScoreCall(q, s, ret) == [fn |-> "score", q |-> q, s |-> s, ret |-> ret]

InitScore ==
    /\ cache = <<>>
    /\ trace = <<>>
    /\ sess = NoSess
    /\ turn = NoTurn
    /\ ratios = RatioTable

Score ==
    /\ \E q \in ScoreQueries, s \in Scores :
          trace' = <<ScoreCall(q, s, calculate_conversion_score(q, s))>>
    /\ UNCHANGED <<cache, sess, turn, ratios>>

NextScore == Score

SpecScore == InitScore /\ [][NextScore]_vars

(* C10: for every query q and every current score s in 1..5, the result r  *)
(* of calculate_conversion_score(q, s) satisfies s <= r <= 5 (so it is     *)
(* never negative and never below s).                                      *)
C10_ScoreMonotone ==
    \A n \in 1..Len(trace) :
        trace[n].fn = "score" =>
            /\ trace[n].s <= trace[n].ret
            /\ trace[n].ret <= MAX_CONVERSION_SCORE
            /\ trace[n].ret >= 0

(* C10 witness: a keyword-free query scored at a current score above the   *)
(* floor, and left where it was. *)
C10_Witness ==
    \E n \in 1..Len(trace) :
        /\ trace[n].fn = "score"
        /\ trace[n].q # <<>>
        /\ ~ContainsAny(Lower(trace[n].q), HIGH_INTENT_KEYWORDS)
        /\ trace[n].s = 4
        /\ trace[n].ret = 4

(* C11 (as claimed): exactly one keyword category applies per call: a      *)
(* query with a high-intent keyword gains +2 (capped) and no topical +1,   *)
(* and a topical keyword adds +1 only when no high-intent keyword matches; *)
(* hence the result is at most max(s, 2) + 2.                              *)
C11_SingleKeywordCategory ==
    \A n \in 1..Len(trace) :
        (trace[n].fn = "score" /\ trace[n].q # <<>>) =>
            /\ trace[n].ret <= Max2(trace[n].s, 2) + 2
            /\ ContainsAny(Lower(trace[n].q), HIGH_INTENT_KEYWORDS) =>
                  trace[n].ret = Min2(Max2(trace[n].s, 2) + 2, MAX_CONVERSION_SCORE)
            /\ ~ContainsAny(Lower(trace[n].q), HIGH_INTENT_KEYWORDS) =>
                  trace[n].ret = Min2(Max2(trace[n].s, 2)
                                        + (IF ContainsAny(Lower(trace[n].q), general_intent_words)
                                           THEN 1 ELSE 0),
                                      MAX_CONVERSION_SCORE)

-----------------------------------------------------------------------------
(* Spec: turns of answer_query_with_cache_first, one after another, on a   *)
(* cache that starts empty.  The caller passes its conversion score and    *)
(* keeps the one returned (Day_21_D.py, main turn).  `turn` is the record  *)
(* of the latest call.                                                     *)

RawQueries == {Q_SIG, Q_BELOW, Q_HELLO, Q_HINDI}

(* what detect_language reports for each raw query *)
DetectedLangs(raw_query) == IF raw_query = Q_HINDI THEN {HINDI} ELSE {DEFAULT_LANGUAGE}

ToEnglishHows == {"service ok", "raise"}

FromEnglishHows == {"service ok", "raise"}

(* the cleaner fails, or answers with the corrected question *)
CleanReplies == {Raised("RequestException"), Returned(<<" ">> \o Q_SIG \o <<" ">>)}

(* the index fails, or returns one hit: at the threshold, just above it,   *)
(* well below it without a canonical URL *)
RetrievalReplies ==
    {Raised("Exception"),
     Returned(<<Hit(Some(URL1), UNCLEAR_QUERY_THRESHOLD)>>),
     Returned(<<Hit(Some(URL1), UNCLEAR_QUERY_THRESHOLD + 1)>>),
     Returned(<<Hit(None, 20)>>)}

(* the model call times out, raises another exception, returns no text,    *)
(* returns an answer with blanks around it, returns blanks only *)
GenerationReplies ==
    {Raised("RequestException"), Raised("Exception"), NoText,
     Returned(<<" ">> \o A1 \o <<" ">>), Returned(<<" ", " ">>)}

Env(lang, to_en, english, clean, retrieval, generation, from_en) ==
    [lang |-> lang, to_en |-> to_en, english |-> english, clean |-> clean,
     retrieval |-> retrieval, generation |-> generation, from_en |-> from_en]

(* to_english(raw_query) as the turn receives it *)
Bridged(raw_query, lang, to_en, english) ==
    to_english(raw_query, lang,
               TranslateCall(to_en, raw_query, lang, DEFAULT_LANGUAGE, english))

(* The outcomes the outside can give to the calls one turn makes; a call   *)
(* that the turn does not make has no outcome.                             *)
BridgeOutcomes(raw_query) ==
    UNION { IF lang = DEFAULT_LANGUAGE
            THEN {<<lang, "not called", <<>> >>}
            ELSE {<<lang, how, Q_SIG>> : how \in ToEnglishHows}
          : lang \in DetectedLangs(raw_query) }

BackHows(lang) == IF lang = DEFAULT_LANGUAGE THEN {"not called"} ELSE FromEnglishHows

(* small talk or a cache hit ends the turn before cleaning *)
ShortCircuits(c, english_query) ==
    \/ check_small_talk(english_query) # None
    \/ get_cached_answer(c, english_query) # None

EnvsOf(c, b, bridged, cleans, retrievals, generations) ==
    IF TranslationFailed(bridged[2])
    THEN {Env(b[1], b[2], b[3], NotCalled, NotCalled, NotCalled, "not called")}
    ELSE IF ShortCircuits(c, bridged[1])
    THEN {Env(b[1], b[2], b[3], NotCalled, NotCalled, NotCalled, how) : how \in BackHows(b[1])}
    ELSE {Env(b[1], b[2], b[3], cl, rg[1], rg[2], how) :
             cl \in cleans,
             rg \in {x \in retrievals \X (generations \cup {NotCalled}) :
                        (x[2] = NotCalled) <=> UnclearGate(Some(retrieve_context(x[1])[2]))},
             how \in BackHows(b[1])}

EnvsFor(c, b, bridged) ==
    EnvsOf(c, b, bridged, CleanReplies, RetrievalReplies, GenerationReplies)

TurnEnvs(raw_query, c) ==
    UNION { EnvsFor(c, b, Bridged(raw_query, b[1], b[2], b[3])) : b \in BridgeOutcomes(raw_query) }

TurnRecord(raw_query, current_score, e, pre, r) ==
    [fn |-> "answer", raw_query |-> raw_query, current_score |-> current_score,
     env |-> e, pre |-> pre,
     bridged |-> Bridged(raw_query, e.lang, e.to_en, e.english),
     out |-> r.out, calls |-> r.calls, english_query |-> r.english_query,
     cleaned |-> r.cleaned, saved |-> r.saved]

Init ==
    /\ cache = <<>>
    /\ trace = <<>>
    /\ sess = NoSess
    /\ turn = NoTurn
    /\ ratios = RatioTable

Apply(raw_query, e, r) ==
    /\ cache' = r.cache
    /\ turn' = TurnRecord(raw_query, sess.conversion_score, e, cache, r)
    /\ sess' = [sess EXCEPT !.conversion_score = r.out.conversion_score]

Turn ==
    /\ \E raw_query \in RawQueries :
          \E e \in TurnEnvs(raw_query, cache) :
             Apply(raw_query, e,
                   answer_query_with_cache_first(raw_query, sess.conversion_score, cache, e))
    /\ UNCHANGED <<trace, ratios>>

Next == Turn

Spec == Init /\ [][Next]_vars

-----------------------------------------------------------------------------
(* Properties of one turn, checked under Spec                              *)

Called(t, name) == name \in Range(t.calls)

(* the best distance retrieve_context reports for a reply of the index *)
BestDistance(reply) ==
    IF reply.kind = "return" /\ reply.value # <<>> THEN reply.value[1].distance ELSE 100

(* C1: whenever the bridge returns a language code starting with "ERROR",  *)
(* the turn returns the language-failure message with source               *)
(* "Translation Error", distance 1.0 and is_unclear = true, makes no call  *)
(* to small talk, cache, cleaner, retriever or generation, and writes      *)
(* nothing to the cache.                                                   *)
C1_TranslationSentinelGate ==
    (turn.fn = "answer" /\ StartsWith(turn.bridged[2], <<"ERROR">>)) =>
        /\ turn.out.answer_text = LANGUAGE_FAIL_MESSAGE
        /\ turn.out.source = TranslationErrorTag
        /\ turn.out.distance = Some(100)
        /\ turn.out.is_unclear = TRUE
        /\ Range(turn.calls) \cap {"check_small_talk", "get_cached_answer",
                                   "clean_query_with_gemini", "retrieve_context",
                                   "generate", "save_answer_to_cache"} = {}
        /\ turn.saved = None
        /\ cache = turn.pre

(* C1 witness: the bridge returned "ERROR-hi" on a turn that found rows in *)
(* the cache, and the turn reported the language "hi". *)
C1_Witness ==
    /\ turn.fn = "answer"
    /\ turn.bridged[2] = <<"ERROR", "-", "hi">>
    /\ turn.pre # <<>>
    /\ turn.out.detected_lang_code = HINDI
    /\ turn.out.is_unclear

(* C2: on every turn that reaches retrieval, a best distance above 0.65    *)
(* gives the canned unclear response with is_unclear = true and source     *)
(* "Unclear Query", no generation call and no cache write; a best distance *)
(* equal to 0.65 gives a generation call and is_unclear = false.           *)
C2_UnclearGateBoundary ==
    (turn.fn = "answer" /\ Called(turn, "retrieve_context")) =>
        /\ BestDistance(turn.env.retrieval) > UNCLEAR_QUERY_THRESHOLD =>
              /\ turn.out.is_unclear = TRUE
              /\ turn.out.source = UnclearQueryTag
              /\ turn.out.llm_raw = Some(UNCLEAR_QUERY_RESPONSE)
              /\ turn.out.detected_lang_code = DEFAULT_LANGUAGE =>
                    turn.out.answer_text = UNCLEAR_QUERY_RESPONSE
              /\ ~Called(turn, "generate")
              /\ ~Called(turn, "save_answer_to_cache")
              /\ turn.saved = None
              /\ cache = turn.pre
        /\ BestDistance(turn.env.retrieval) = UNCLEAR_QUERY_THRESHOLD =>
              /\ Called(turn, "generate")
              /\ turn.out.is_unclear = FALSE

(* C2 witness: a turn whose best distance is exactly the threshold called  *)
(* the model and cached its answer. *)
C2_Witness ==
    /\ turn.fn = "answer"
    /\ Called(turn, "retrieve_context")
    /\ BestDistance(turn.env.retrieval) = UNCLEAR_QUERY_THRESHOLD
    /\ Called(turn, "generate")
    /\ turn.saved # None
    /\ cache # turn.pre

(* the generation call raised, timed out, or returned no usable text *)
GenerationFailed(reply) ==
    \/ reply.kind \in {"raise", "no text"}
    \/ reply.kind = "return" /\ Strip(reply.value) = <<>>

(* C3 (as claimed): when retrieval passes the gate and the generation call *)
(* raises, times out or returns no usable candidate text, the turn returns *)
(* the fallback message as answer_text and raw answer with                 *)
(* is_unclear = false, and save_answer_to_cache is not called.             *)
C3_GenerationFailureFallback ==
    (turn.fn = "answer" /\ Called(turn, "generate")
       /\ GenerationFailed(turn.env.generation)) =>
        /\ turn.out.llm_raw = Some(FINAL_FALLBACK_MESSAGE)
        /\ turn.out.detected_lang_code = DEFAULT_LANGUAGE =>
              turn.out.answer_text = FINAL_FALLBACK_MESSAGE
        /\ turn.out.is_unclear = FALSE
        /\ ~Called(turn, "save_answer_to_cache")
        /\ turn.saved = None

(* a turn on an empty cache that ended with a generated, non-empty,        *)
(* non-fallback answer *)
AnsweredOnEmptyCache(t) ==
    /\ t.fn = "answer"
    /\ t.pre = <<>>
    /\ Called(t, "generate")
    /\ StartsWith(t.out.source, <<"Gemini", " ", "API">>)
    /\ t.out.llm_raw # Some(FINAL_FALLBACK_MESSAGE)
    /\ t.out.llm_raw # Some(<<>>)

C4_Step ==
    ( /\ AnsweredOnEmptyCache(turn)
      /\ turn'.fn = "answer"
      /\ turn'.raw_query = turn.raw_query
      /\ turn'.bridged = turn.bridged )
    => /\ HasRow(cache, turn.cleaned[1])
       /\ StartsWith(turn'.out.source, CacheHitPrefix)
       /\ ~Called(turn', "generate")

(* C4 (as claimed): starting from an empty cache, after a call for q that  *)
(* ends with a successful non-fallback generation the cache holds the      *)
(* cleaned question, and the next call with the same q returns a source    *)
(* starting with "Cache HIT" and does not call the generation model.       *)
C4_CachePopulationThenHit == [][C4_Step]_vars

-----------------------------------------------------------------------------
(* regenerate_answer, src/rough/Day_21_C.py: a forced generation that      *)
(* skips small talk and the cache and writes nothing                       *)

BASE_URL == <<"https://leanextconsulting.com/">>

dummy_conversion_score == 3

RegenUnclearTag == <<"Regen", " ", "Failed", " ", "(Unclear)">>

GeminiRegenTag == <<"Gemini", " ", "API", " ", "(Regenerated:", " ", "0.0s)">>

GeminiErrorRegenTag == <<"Gemini", " ", "Error", " ", "(Regen)">>

(* distance is None or distance > UNCLEAR_QUERY_THRESHOLD *)
RegenGate(distance) ==
    distance = None \/ distance[1] > UNCLEAR_QUERY_THRESHOLD

(* 4. generation, try / except around the request *)
RegenGenerate(reply) ==
    IF reply.kind = "return"
    THEN [answer |-> Strip(reply.value), source |-> GeminiRegenTag]
    ELSE IF reply.kind = "no text"
    THEN [answer |-> Strip(FINAL_FALLBACK_MESSAGE), source |-> GeminiRegenTag]
    ELSE [answer |-> FINAL_FALLBACK_MESSAGE, source |-> GeminiErrorRegenTag]

(* 5. translation back, 6. llm_raw, and the return statement *)
RegenReturn(e, detected_lang_code, distance, top_k_metadata_list, is_unclear, source, final_english_answer) ==
    Outcome(ToUserLanguage(e, final_english_answer, detected_lang_code),
            source, distance, top_k_metadata_list, is_unclear,
            Some(final_english_answer), detected_lang_code, dummy_conversion_score)

(* 3. retrieval and the gate *)
RegenRetrieve(e, detected_lang_code, retrieved) ==
    IF RegenGate(Some(retrieved[2]))
    THEN RegenReturn(e, detected_lang_code, Some(retrieved[2]), retrieved[3], TRUE,
                     RegenUnclearTag, FINAL_FALLBACK_MESSAGE)
    ELSE RegenReturn(e, detected_lang_code, Some(retrieved[2]), retrieved[3], FALSE,
                     RegenGenerate(e.generation).source, RegenGenerate(e.generation).answer)

(* the translation gate *)
RegenTranslation(e, bridged) ==
    IF TranslationFailed(bridged[2])
    THEN Outcome(LANGUAGE_FAIL_MESSAGE, TranslationErrorTag, Some(100), <<>>, TRUE,
                 None, Split(bridged[2], "-")[2], dummy_conversion_score)
    ELSE RegenRetrieve(e, bridged[2], retrieve_context(e.retrieval))

(* regenerate_answer(raw_query, collection, history_queries); the cleaned  *)
(* question and the history only enter the text sent to the index and to   *)
(* the model *)
regenerate_answer(raw_query, e) ==
    RegenTranslation(e, to_english(raw_query, e.lang,
                                   TranslateCall(e.to_en, raw_query, e.lang,
                                                 DEFAULT_LANGUAGE, e.english)))

(* match_landing_page(query, context_metadatas): the URL of the best hit   *)
(* if it lies under BASE_URL, else None *)
match_landing_page(context_metadatas) ==
    IF context_metadatas = <<>> THEN None
    ELSE IF context_metadatas[1].canonical # None
            /\ Contains(context_metadatas[1].canonical[1], BASE_URL)
    THEN context_metadatas[1].canonical
    ELSE None

-----------------------------------------------------------------------------
(* SpecSession: the chat loop of src/rough/Day_21_D.py on one session and  *)
(* a cache that starts empty.  A message of Python index i is              *)
(* sess.messages[i + 1]; regenerate_index and the keys of feedback are     *)
(* Python indices.                                                         *)

MaxPrompts == 1

Hours == {9}

(* get_greeting() followed by the introduction *)
get_greeting(hour) ==
    IF hour < 12 THEN <<"Good morning!">>
    ELSE IF hour < 18 THEN <<"Good afternoon!">>
    ELSE <<"Good evening!">>

InitialGreetingTag == <<"Initial", " ", "Greeting">>

UserMessage(content, translated_query, detected_lang) ==
    [role |-> "user", content |-> content,
     translated_query |-> translated_query, detected_lang |-> detected_lang]

AssistantMessage(content, source_tag, distance, top_k_metadata, query_to_cache, language, llm_raw) ==
    [role |-> "assistant", content |-> content, source_tag |-> source_tag,
     distance |-> distance, top_k_metadata |-> top_k_metadata,
     query_to_cache |-> query_to_cache, language |-> language, llm_raw |-> llm_raw]

(* distance or 0.0 *)
DistanceOrZero(distance) == IF distance = None THEN 0 ELSE distance[1]

RelatedPage(url) ==
    <<"\n\n---\n\n", "Related Page:", " ", "[", "Related Page", "](">> \o url \o <<")">>

(* English prompts: a question and a greeting *)
SessionQueries == {Q_BELOW, Q_HELLO}

SessionCleanReplies == {Raised("RequestException"), Returned(Q_SIG)}

SessionRetrievalReplies ==
    {Raised("Exception"),
     Returned(<<Hit(Some(URL1), UNCLEAR_QUERY_THRESHOLD)>>),
     Returned(<<Hit(None, 20)>>)}

(* the model call fails, returns no text, or returns one of two answers *)
SessionGenerationReplies ==
    {Raised("RequestException"), NoText, Returned(<<" ">> \o A1 \o <<" ">>), Returned(A2)}

UserMessages(s) == {i \in 1..Len(s.messages) : s.messages[i].role = "user"}

(* the script has run to its end and waits for the user *)
Idle(s) ==
    /\ s.greeted
    /\ s.regenerate_index = -1
    /\ s.messages # <<>>
    /\ s.messages[Len(s.messages)].role # "user"

(* the feedback buttons are drawn under message i *)
HasFeedbackButtons(s, i) ==
    /\ i > 0
    /\ i < Len(s.messages)
    /\ s.messages[i + 1].role = "assistant"
    /\ ~StartsWith(s.messages[i + 1].source_tag, <<"Small", " ", "Talk">>)
    /\ ~StartsWith(s.messages[i + 1].source_tag, InitialGreetingTag)

(* st.session_state.feedback.get(i) *)
FeedbackGet(s, i) == IF i \in DOMAIN s.feedback THEN Some(s.feedback[i]) ELSE None

FeedbackPut(feedback, i, feedback_type) ==
    [j \in DOMAIN feedback \cup {i} |-> IF j = i THEN feedback_type ELSE feedback[j]]

InitSession ==
    /\ cache = <<>>
    /\ trace = <<>>
    /\ sess = NoSess
    /\ turn = NoTurn
    /\ ratios = RatioTable

(* the greeting block at the top of the chat display *)
Greet ==
    /\ ~sess.greeted
    /\ \E hour \in Hours :
          sess' = [sess EXCEPT
                      !.messages = Append(@, AssistantMessage(
                                      get_greeting(hour) \o <<" ", "I'm LeanBot">>,
                                      InitialGreetingTag, 0, <<>>, None, DEFAULT_LANGUAGE,
                                      Some(get_greeting(hour) \o <<" ", "I'm LeanBot">>))),
                      !.greeted = TRUE]
    /\ turn' = [fn |-> "greet"]
    /\ UNCHANGED <<cache, trace, ratios>>

(* clear_chat *)
ClearChat ==
    /\ Idle(sess)
    /\ sess' = [sess EXCEPT !.messages = <<>>, !.greeted = FALSE, !.conversion_score = 1]
    /\ turn' = [fn |-> "clear"]
    /\ UNCHANGED <<cache, trace, ratios>>

(* a submitted prompt: stage 1, language detection and translation; the    *)
(* prompt is one of `queries`, in a chat of fewer than max_prompts prompts *)
PromptFrom(queries, max_prompts) ==
    /\ Idle(sess)
    /\ Cardinality(UserMessages(sess)) < max_prompts
    /\ \E original_query \in queries :
          \E b \in BridgeOutcomes(original_query) :
             sess' = [sess EXCEPT !.messages = Append(@,
                         UserMessage(original_query,
                                     Bridged(original_query, b[1], b[2], b[3])[1],
                                     Bridged(original_query, b[1], b[2], b[3])[2]))]
    /\ turn' = [fn |-> "prompt"]
    /\ UNCHANGED <<cache, trace, ratios>>

Prompt == PromptFrom(SessionQueries, MaxPrompts)

(* final_output_en *)
FinalOutputEn(out) ==
    IF out.is_unclear THEN out.llm_raw
    ELSE IF out.llm_raw # None /\ out.llm_raw[1] # <<>> THEN out.llm_raw
    ELSE Some(FINAL_FALLBACK_MESSAGE)

(* final_output: the answer, with the landing page link appended *)
FinalOutput(out) ==
    IF ~out.is_unclear /\ StartsWith(out.source, <<"Gemini", " ", "API">>)
       /\ match_landing_page(out.top_k_metadata_list) # None
    THEN out.answer_text \o RelatedPage(match_landing_page(out.top_k_metadata_list)[1])
    ELSE out.answer_text

(* the message the main turn appends *)
TurnMessage(out, detected_lang) ==
    AssistantMessage(FinalOutput(out), out.source, DistanceOrZero(out.distance),
                     out.top_k_metadata_list, None, detected_lang, FinalOutputEn(out))

(* message.get('translated_query') or message['content'] *)
TranslatedText(message) ==
    IF message.translated_query # <<>> THEN message.translated_query ELSE message.content

(* history_queries: the translated text of every user message in           *)
(* st.session_state.messages, in order *)
RECURSIVE HistoryQueries(_)
HistoryQueries(messages) ==
    IF messages = <<>> THEN <<>>
    ELSE IF Head(messages).role = "user"
    THEN <<TranslatedText(Head(messages))>> \o HistoryQueries(Tail(messages))
    ELSE HistoryQueries(Tail(messages))

(* lst[-n:] *)
LastN(lst, n) == SubSeq(lst, Max2(1, Len(lst) - n + 1), Len(lst))

(* sep.join(lst) *)
RECURSIVE Join(_, _)
Join(lst, sep) ==
    IF lst = <<>> THEN <<>>
    ELSE IF Len(lst) = 1 THEN lst[1]
    ELSE lst[1] \o sep \o Join(Tail(lst), sep)

num_turns == 3

(* get_history_queries(num_turns=3), on st.session_state.messages *)
get_history_queries(messages, n) == Join(LastN(HistoryQueries(messages), n), <<" | ">>)

ApplyTurn(user_message, r) ==
    /\ cache' = r.cache
    /\ sess' = [sess EXCEPT
                   !.conversion_score = r.out.conversion_score,
                   !.messages = Append(@, TurnMessage(r.out, user_message.detected_lang))]
    /\ turn' = [fn |-> "main turn", saved |-> r.saved,
                history |-> get_history_queries(sess.messages, num_turns)]

TurnEnvsOf(raw_query, c, cleans, retrievals, generations) ==
    UNION { EnvsOf(c, b, Bridged(raw_query, b[1], b[2], b[3]), cleans, retrievals, generations)
          : b \in BridgeOutcomes(raw_query) }

SessionTurnEnvs(raw_query, c) ==
    TurnEnvsOf(raw_query, c, SessionCleanReplies, SessionRetrievalReplies,
               SessionGenerationReplies)

(* 2. process the most recent user message; the outside answers the calls  *)
(* of the turn from the given reply sets *)
ProcessTurnWith(cleans, retrievals, generations) ==
    /\ sess.messages # <<>>
    /\ sess.messages[Len(sess.messages)].role = "user"
    /\ sess.regenerate_index = -1
    /\ \E e \in TurnEnvsOf(sess.messages[Len(sess.messages)].content, cache,
                           cleans, retrievals, generations) :
          ApplyTurn(sess.messages[Len(sess.messages)],
                    answer_query_with_cache_first(sess.messages[Len(sess.messages)].content,
                                                  sess.conversion_score, cache, e))
    /\ UNCHANGED <<trace, ratios>>

ProcessTurn ==
    ProcessTurnWith(SessionCleanReplies, SessionRetrievalReplies, SessionGenerationReplies)

(* a feedback handler whose like also stores the answer of a message that  *)
(* carries no query_to_cache *)
handle_feedback_caching(s, c, message_index, feedback_type) ==
    IF feedback_type = "dislike"
    THEN [sess |-> [s EXCEPT !.feedback = FeedbackPut(@, message_index, feedback_type),
                             !.regenerate_index = message_index],
          cache |-> c, updated |-> None]
    ELSE IF s.messages[message_index + 1].query_to_cache # None
    THEN [sess |-> [s EXCEPT !.feedback = FeedbackPut(@, message_index, feedback_type)],
          cache |-> update_cached_answer(c,
                        s.messages[message_index + 1].query_to_cache[1][1],
                        s.messages[message_index + 1].query_to_cache[1][2],
                        s.messages[message_index + 1].query_to_cache[1][3]).cache,
          updated |-> Some(update_cached_answer(c,
                        s.messages[message_index + 1].query_to_cache[1][1],
                        s.messages[message_index + 1].query_to_cache[1][2],
                        s.messages[message_index + 1].query_to_cache[1][3]).ok)]
    ELSE [sess |-> [s EXCEPT !.feedback = FeedbackPut(@, message_index, feedback_type)],
          cache |-> save_answer_to_cache(c, s.messages[message_index].translated_query,
                                         s.messages[message_index + 1].content,
                                         s.messages[message_index + 1].source_tag),
          updated |-> None]

(* handle_feedback(message_index, feedback_type) on session s and table c *)
handle_feedback(s, c, message_index, feedback_type) ==
    IF feedback_type = "dislike"
    THEN [sess |-> [s EXCEPT !.feedback = FeedbackPut(@, message_index, feedback_type),
                             !.regenerate_index = message_index],
          cache |-> c, updated |-> None]
    ELSE IF s.messages[message_index + 1].query_to_cache # None
    THEN [sess |-> [s EXCEPT !.feedback = FeedbackPut(@, message_index, feedback_type)],
          cache |-> update_cached_answer(c,
                        s.messages[message_index + 1].query_to_cache[1][1],
                        s.messages[message_index + 1].query_to_cache[1][2],
                        s.messages[message_index + 1].query_to_cache[1][3]).cache,
          updated |-> Some(update_cached_answer(c,
                        s.messages[message_index + 1].query_to_cache[1][1],
                        s.messages[message_index + 1].query_to_cache[1][2],
                        s.messages[message_index + 1].query_to_cache[1][3]).ok)]
    ELSE [sess |-> [s EXCEPT !.feedback = FeedbackPut(@, message_index, feedback_type)],
          cache |-> c, updated |-> None]

ApplyFeedback(message_index, feedback_type, r) ==
    /\ sess' = r.sess
    /\ cache' = r.cache
    /\ turn' = [fn |-> feedback_type, index |-> message_index, updated |-> r.updated]

(* the thumbs-up button under a message *)
Like ==
    /\ Idle(sess)
    /\ \E i \in 1..(Len(sess.messages) - 1) :
          /\ HasFeedbackButtons(sess, i)
          /\ FeedbackGet(sess, i) # Some("like")
          /\ ApplyFeedback(i, "like", handle_feedback(sess, cache, i, "like"))
    /\ UNCHANGED <<trace, ratios>>

(* the thumbs-down button under a message *)
Dislike ==
    /\ Idle(sess)
    /\ \E i \in 1..(Len(sess.messages) - 1) :
          /\ HasFeedbackButtons(sess, i)
          /\ FeedbackGet(sess, i) # Some("dislike")
          /\ ApplyFeedback(i, "dislike", handle_feedback(sess, cache, i, "dislike"))
    /\ UNCHANGED <<trace, ratios>>

(* the outcomes the outside can give to the calls of one regeneration;     *)
(* key_clean is the reply to the cleaning call that builds the cache key *)
RegenEnvsOf(b, bridged, cleans, retrievals, generations) ==
    IF TranslationFailed(bridged[2])
    THEN {[env |-> Env(b[1], b[2], b[3], NotCalled, NotCalled, NotCalled, "not called"),
           key_clean |-> NotCalled]}
    ELSE {[env |-> Env(b[1], b[2], b[3], NotCalled, rg[1], rg[2], how), key_clean |-> cl] :
             cl \in cleans \cup {NotCalled},
             rg \in {x \in retrievals \X (generations \cup {NotCalled}) :
                        (x[2] = NotCalled) <=> RegenGate(Some(retrieve_context(x[1])[2]))},
             how \in BackHows(b[1])}

RegenEnvsFor(b, bridged) ==
    RegenEnvsOf(b, bridged, SessionCleanReplies, SessionRetrievalReplies,
                SessionGenerationReplies)

RegenEnvsFrom(raw_query, cleans, retrievals, generations) ==
    UNION { RegenEnvsOf(b, Bridged(raw_query, b[1], b[2], b[3]), cleans, retrievals, generations)
          : b \in BridgeOutcomes(raw_query) }

RegenEnvs(raw_query) ==
    UNION { RegenEnvsFor(b, Bridged(raw_query, b[1], b[2], b[3]))
          : b \in BridgeOutcomes(raw_query) }

(* the regenerated reply is kept for a later like *)
KeepsForCache(new_response_en) ==
    /\ new_response_en # None
    /\ new_response_en[1] # <<>>
    /\ new_response_en[1] # FINAL_FALLBACK_MESSAGE

(* new_metadata[0].get('canonical', 'RAG-Regen') if new_metadata else      *)
(* 'RAG-Regen' *)
RegenSourceTag(new_metadata) ==
    IF new_metadata # <<>> /\ new_metadata[1].canonical # None
    THEN new_metadata[1].canonical[1]
    ELSE <<"RAG-Regen">>

(* query_to_cache_data *)
QueryToCache(user_message, out, key_clean) ==
    IF KeepsForCache(out.llm_raw)
    THEN Some(<<clean_query_with_gemini(user_message.translated_query, key_clean),
                out.llm_raw[1], RegenSourceTag(out.top_k_metadata_list)>>)
    ELSE None

(* the message that overwrites the disliked one *)
RegenMessage(user_message, detected_lang, out, key_clean) ==
    AssistantMessage(out.answer_text, out.source, DistanceOrZero(out.distance),
                     out.top_k_metadata_list, QueryToCache(user_message, out, key_clean),
                     detected_lang, out.llm_raw)

(* a session that takes the score regenerate_answer returns *)
KeptScoreDummy(current_score, out) == out.conversion_score

(* the score regenerate_answer returns is unpacked into `_`: the session   *)
(* keeps its own *)
KeptScore(current_score, out) == current_score

(* a regeneration step that appends its message below the disliked one *)
ApplyRegenAppended(idx, message, out) ==
    /\ sess' = [sess EXCEPT !.regenerate_index = -1, !.messages = Append(@, message),
                            !.conversion_score = KeptScore(@, out)]
    /\ turn' = [fn |-> "regenerate", index |-> idx]

ApplyRegen(idx, message, out) ==
    /\ sess' = [sess EXCEPT !.regenerate_index = -1, !.messages[idx + 1] = message,
                            !.conversion_score = KeptScore(@, out)]
    /\ turn' = [fn |-> "regenerate", index |-> idx]

(* regeneration execution; the outside answers its calls from the given    *)
(* reply sets *)
RegenerateWith(cleans, retrievals, generations) ==
    /\ sess.regenerate_index # -1
    /\ \E x \in RegenEnvsFrom(sess.messages[sess.regenerate_index].content,
                              cleans, retrievals, generations) :
          /\ (x.key_clean = NotCalled) <=>
                ~KeepsForCache(regenerate_answer(sess.messages[sess.regenerate_index].content,
                                                 x.env).llm_raw)
          /\ ApplyRegen(sess.regenerate_index,
                        RegenMessage(sess.messages[sess.regenerate_index],
                                     sess.messages[sess.regenerate_index + 1].language,
                                     regenerate_answer(sess.messages[sess.regenerate_index].content,
                                                       x.env),
                                     x.key_clean),
                        regenerate_answer(sess.messages[sess.regenerate_index].content, x.env))
    /\ UNCHANGED <<cache, trace, ratios>>

Regenerate ==
    RegenerateWith(SessionCleanReplies, SessionRetrievalReplies, SessionGenerationReplies)

NextSession ==
    Greet \/ Prompt \/ ProcessTurn \/ Like \/ Dislike \/ Regenerate \/ ClearChat

SpecSession == InitSession /\ [][NextSession]_vars

-----------------------------------------------------------------------------
(* Properties of the session, checked under SpecSession                    *)

(* C5: after any sequence of main-path turns, dislikes, regenerations and  *)
(* likes, no row of the cache has an answer equal to the fixed fallback    *)
(* message.                                                                *)
C5_NeverCacheFallback ==
    \A i \in 1..Len(cache) : cache[i].answer # FINAL_FALLBACK_MESSAGE

(* C5 witness: the user liked a regenerated message whose English answer   *)
(* is the fallback message, while the cache holds the row written by the   *)
(* main turn for the same question. *)
C5_Witness ==
    /\ turn.fn = "like"
    /\ sess.messages[turn.index + 1].llm_raw = Some(FINAL_FALLBACK_MESSAGE)
    /\ sess.messages[turn.index + 1].source_tag \in {GeminiRegenTag, GeminiErrorRegenTag,
                                                     RegenUnclearTag}
    /\ sess.messages[turn.index + 1].query_to_cache = None
    /\ cache # <<>>

-----------------------------------------------------------------------------
(* SpecSessionScore: the same chat loop, with prompts that carry scoring   *)
(* keywords and up to MaxScorePrompts prompts in one chat                  *)

MaxScorePrompts == 2

ScorePromptQueries == {Q_DEMO, Q_ABOUT, Q_HELLO}

ScoreCleanReplies == {Raised("RequestException")}

ScoreRetrievalReplies ==
    {Raised("Exception"), Returned(<<Hit(Some(URL1), UNCLEAR_QUERY_THRESHOLD)>>)}

ScoreGenerationReplies == {Returned(A1)}

ScorePrompt == PromptFrom(ScorePromptQueries, MaxScorePrompts)

ScoreProcessTurn ==
    ProcessTurnWith(ScoreCleanReplies, ScoreRetrievalReplies, ScoreGenerationReplies)

ScoreRegenerate ==
    RegenerateWith(ScoreCleanReplies, ScoreRetrievalReplies, ScoreGenerationReplies)

NextSessionScore ==
    Greet \/ ScorePrompt \/ ScoreProcessTurn \/ Like \/ Dislike \/ ScoreRegenerate \/ ClearChat

SpecSessionScore == InitSession /\ [][NextSessionScore]_vars

(* every step but clear_chat leaves the score where it was or raises it *)
C12_Step ==
    turn'.fn # "clear" => sess'.conversion_score >= sess.conversion_score

(* C12: after any sequence of user turns, feedback events, regenerations   *)
(* and clear-chat resets, the session's conversion_score is an integer in  *)
(* [1, 5], and between two consecutive resets it never decreases.          *)
C12_SessionScore ==
    /\ [](sess.conversion_score \in 1..MAX_CONVERSION_SCORE)
    /\ [][C12_Step]_vars

(* C12 witness: in a chat of two prompts the score stands at the cap after *)
(* a regeneration, whose own returned score is the dummy 3. *)
C12_Witness ==
    /\ turn.fn = "regenerate"
    /\ Cardinality(UserMessages(sess)) = 2
    /\ sess.conversion_score = MAX_CONVERSION_SCORE
    /\ dummy_conversion_score < sess.conversion_score

-----------------------------------------------------------------------------
(* SpecBridge: the methods of LanguageTranslator,                          *)
(* src/rough/language_middleware2.py, each applied to a text with every    *)
(* outcome of the detector and of the translation service.  The texts are  *)
(* ASCII, on which NFC normalisation changes nothing.                      *)

(* ["en", "hi", "mr", "kn", "bn", "gu"] *)
SUPPORTED_LANGUAGES == << <<"en">>, <<"hi">>, <<"mr">>, <<"kn">>, <<"bn">>, <<"gu">> >>

FRENCH == <<"fr">>

(* normalize_query(text) *)
normalize_query(text) == IF text = <<>> THEN <<>> ELSE Strip(text)

(* a length test that lets every text through to the detector *)
TooShortNever(text) == FALSE

(* len(text.strip()) < 5 *)
TooShort(text) == Len(Strip(text)) < 5

(* detect_language(text); `detection` is the outcome of                    *)
(* self.translator.detect: it raised, or it returned a language code.      *)
(* `called` tells whether the detector was called. *)
detect_language(text, detection) ==
    IF normalize_query(text) = <<>> THEN [code |-> DEFAULT_LANGUAGE, called |-> FALSE]
    ELSE IF TooShort(normalize_query(text)) THEN [code |-> DEFAULT_LANGUAGE, called |-> FALSE]
    ELSE IF detection.kind = "return" /\ detection.value \in Range(SUPPORTED_LANGUAGES)
    THEN [code |-> detection.value, called |-> TRUE]
    ELSE [code |-> DEFAULT_LANGUAGE, called |-> TRUE]

(* self.translator.translate is reached *)
ServiceCalled(text, src, dest) == normalize_query(text) # <<>> /\ src # dest

(* "", "  ", "hi", " lean " (4 characters stripped), "hello" (5), and two   *)
(* questions *)
BridgeTexts ==
    { <<>>, <<" ", " ">>, <<"h","i">>, <<" ","l","e","a","n"," ">>,
      <<"h","e","l","l","o">>, Q_HINDI, Q_SIG }

Detections ==
    {Raised("Exception")} \cup {Returned(code) : code \in Range(SUPPORTED_LANGUAGES) \cup {FRENCH}}

(* the translation service answers, or fails *)
ServiceHows == {"service ok", "service down"}

DestLangs == {DEFAULT_LANGUAGE, <<>>, HINDI}

BridgeCall(fn, text, detection, lang, how, called, ret) ==
    [fn |-> fn, text |-> text, detection |-> detection, lang |-> lang, how |-> how,
     called |-> called, ret |-> ret]

InitBridge ==
    /\ cache = <<>>
    /\ trace = <<>>
    /\ sess = NoSess
    /\ turn = NoTurn
    /\ ratios = RatioTable

Detect ==
    /\ \E text \in BridgeTexts, detection \in Detections :
          trace' = <<BridgeCall("detect_language", text, detection, None, "not called",
                                detect_language(text, detection).called,
                                detect_language(text, detection).code)>>
    /\ UNCHANGED <<cache, sess, turn, ratios>>

ToEnglishOn(text, detection, how, code) ==
    trace' = <<BridgeCall("to_english", text, detection, code, how,
                          code # DEFAULT_LANGUAGE /\ ServiceCalled(text, code, DEFAULT_LANGUAGE),
                          to_english(text, code,
                                     TranslateCall(how, text, code, DEFAULT_LANGUAGE,
                                                   ServiceText(normalize_query(text),
                                                               DEFAULT_LANGUAGE))))>>

ToEnglish ==
    /\ \E text \in BridgeTexts, detection \in Detections, how \in ServiceHows :
          ToEnglishOn(text, detection, how, detect_language(text, detection).code)
    /\ UNCHANGED <<cache, sess, turn, ratios>>

FromEnglish ==
    /\ \E text \in BridgeTexts \cup {A1}, dest_lang \in DestLangs, how \in ServiceHows :
          trace' = <<BridgeCall("from_english", text, None, dest_lang, how,
                                dest_lang # DEFAULT_LANGUAGE /\ dest_lang # <<>>
                                   /\ ServiceCalled(text, <<"auto">>, dest_lang),
                                from_english(text, dest_lang,
                                             TranslateCall(how, text, <<"auto">>, dest_lang,
                                                           ServiceText(normalize_query(text),
                                                                       dest_lang))))>>
    /\ UNCHANGED <<cache, sess, turn, ratios>>

NextBridge == Detect \/ ToEnglish \/ FromEnglish

SpecBridge == InitBridge /\ [][NextBridge]_vars

-----------------------------------------------------------------------------
(* Properties of the bridge, checked under SpecBridge                      *)

(* C13 (as claimed): when the detected language is not the pivot and the   *)
(* translation service call fails, to_english returns                      *)
(* (original_text, "ERROR-<lang_code>"); it never returns the untranslated *)
(* text paired with a plain language code.                                 *)
C13_ToPivotErrorSentinel ==
    \A n \in 1..Len(trace) :
        ( /\ trace[n].fn = "to_english"
          /\ trace[n].lang # DEFAULT_LANGUAGE
          /\ trace[n].called
          /\ trace[n].how = "service down" )
        => trace[n].ret = <<trace[n].text, <<"ERROR", "-">> \o trace[n].lang>>

(* C14 (as claimed): from_english returns the text unchanged with no       *)
(* translation call when dest is the pivot code or empty; otherwise it     *)
(* returns the translation when the service call succeeds and the fixed    *)
(* language-failure message when it fails, never the untranslated text.    *)
C14_FromPivotOutcomes ==
    \A n \in 1..Len(trace) :
        trace[n].fn = "from_english" =>
            /\ trace[n].lang \in {DEFAULT_LANGUAGE, <<>>} =>
                  (trace[n].ret = trace[n].text /\ ~trace[n].called)
            /\ (trace[n].called /\ trace[n].how = "service ok") =>
                  trace[n].ret = ServiceText(normalize_query(trace[n].text), trace[n].lang)
            /\ (trace[n].called /\ trace[n].how = "service down") =>
                  /\ trace[n].ret = LANGUAGE_FAIL_MESSAGE
                  /\ trace[n].ret # normalize_query(trace[n].text)

(* C15: detect_language returns a supported code for every text; it        *)
(* returns the pivot code without calling the detector when the stripped   *)
(* text is shorter than 5 characters, and the pivot code when the detector *)
(* raises or reports an unsupported language.                              *)
C15_DetectTotalFailOpen ==
    \A n \in 1..Len(trace) :
        trace[n].fn = "detect_language" =>
            /\ trace[n].ret \in Range(SUPPORTED_LANGUAGES)
            /\ Len(Strip(trace[n].text)) < 5 =>
                  (trace[n].ret = DEFAULT_LANGUAGE /\ ~trace[n].called)
            /\ trace[n].detection.kind = "raise" => trace[n].ret = DEFAULT_LANGUAGE
            /\ (trace[n].detection.kind = "return"
                  /\ trace[n].detection.value \notin Range(SUPPORTED_LANGUAGES)) =>
                  trace[n].ret = DEFAULT_LANGUAGE

(* C15 witness: a 4-character text for which the detector would have said  *)
(* Hindi is reported as the pivot language without a detector call. *)
C15_Witness ==
    \E n \in 1..Len(trace) :
        /\ trace[n].fn = "detect_language"
        /\ Len(Strip(trace[n].text)) = 4
        /\ trace[n].detection = Returned(HINDI)
        /\ trace[n].ret = DEFAULT_LANGUAGE
        /\ ~trace[n].called

-----------------------------------------------------------------------------
(* SpecTalk: turns of answer_query_with_cache_first on greetings and      *)
(* questions, with a cleaner that may answer with a greeting or with a     *)
(* question of 21 characters, so that the cache comes to hold rows that a  *)
(* small-talk query would match and rows whose question is longer than     *)
(* the 20 characters shown in the source tag                               *)

TalkQueries == {Q_WHO, Q_HELLO, Q_SIG, Q_HINDI}

TalkCleanReplies == {Raised("RequestException"), Returned(Q_WHO), Returned(Q_SIGM)}

(* the index raises, returns no documents, or returns one hit *)
TalkRetrievalReplies ==
    {Raised("Exception"), Returned(<<>>),
     Returned(<<Hit(Some(URL1), UNCLEAR_QUERY_THRESHOLD)>>)}

TalkGenerationReplies == {Raised("RequestException"), Returned(A1), Returned(A2)}

(* one call of answer_query_with_cache_first on one of `queries`, the      *)
(* outside answering from the given reply sets *)
TurnWith(queries, cleans, retrievals, generations) ==
    /\ \E raw_query \in queries :
          \E e \in TurnEnvsOf(raw_query, cache, cleans, retrievals, generations) :
             Apply(raw_query, e,
                   answer_query_with_cache_first(raw_query, sess.conversion_score, cache, e))
    /\ UNCHANGED <<trace, ratios>>

TalkTurn == TurnWith(TalkQueries, TalkCleanReplies, TalkRetrievalReplies, TalkGenerationReplies)

NextTalk == TalkTurn

SpecTalk == Init /\ [][NextTalk]_vars

(* the triggers that occur in the lower-cased query, by table position *)
TriggersIn(query) ==
    {i \in 1..Len(SMALL_TALK_TRIGGERS) : Contains(Lower(query), SMALL_TALK_TRIGGERS[i].key)}

(* C16: past the translation gate, if the lower-cased pivot query contains *)
(* a trigger phrase, the turn returns the canned response of the first     *)
(* such trigger in table order with source "Small Talk Response", no       *)
(* distance and is_unclear = false, and makes no cache lookup, cleaning,   *)
(* retrieval, generation or cache write.                                   *)
C16_SmallTalkShortCircuit ==
    ( /\ turn.fn = "answer"
      /\ ~StartsWith(turn.bridged[2], <<"ERROR">>)
      /\ TriggersIn(turn.english_query) # {} )
    => /\ \E i \in TriggersIn(turn.english_query) :
             /\ \A j \in TriggersIn(turn.english_query) : i <= j
             /\ turn.out.llm_raw = Some(SMALL_TALK_TRIGGERS[i].response)
             /\ turn.out.detected_lang_code = DEFAULT_LANGUAGE =>
                   turn.out.answer_text = SMALL_TALK_TRIGGERS[i].response
       /\ turn.out.source = SmallTalkTag
       /\ turn.out.distance = None
       /\ turn.out.is_unclear = FALSE
       /\ Range(turn.calls) \cap {"get_cached_answer", "clean_query_with_gemini",
                                  "retrieve_context", "generate", "save_answer_to_cache"} = {}
       /\ turn.saved = None
       /\ cache = turn.pre

(* C16 witness: a small-talk turn on a query that holds two triggers,      *)
(* while the cache holds a row stored under that very query. *)
C16_Witness ==
    /\ turn.fn = "answer"
    /\ Cardinality(TriggersIn(turn.english_query)) = 2
    /\ turn.out.source = SmallTalkTag
    /\ get_cached_answer(turn.pre, turn.english_query) # None

(* the answer as the user receives it: the text itself for the pivot       *)
(* language, else what the bridge made of it *)
InUserLanguage(t, text) ==
    IF t.out.detected_lang_code = DEFAULT_LANGUAGE THEN text
    ELSE IF t.env.from_en = "service ok"
    THEN ServiceText(Strip(text), t.out.detected_lang_code)
    ELSE LANGUAGE_FAIL_MESSAGE

(* a turn that passed the translation gate and small talk and found the    *)
(* query in the cache *)
CacheHitTurn(t) ==
    /\ t.fn = "answer"
    /\ ~StartsWith(t.bridged[2], <<"ERROR">>)
    /\ TriggersIn(t.english_query) = {}
    /\ get_cached_answer(t.pre, t.english_query) # None

RetrievalFailed(reply) == reply.kind = "raise" \/ (reply.kind = "return" /\ reply.value = <<>>)

(* C18: if the vector-index query raises or returns no documents,          *)
(* retrieve_context returns (None, 1.0, []) and the turn ends unclear: the *)
(* generation model is not called and nothing is cached in that turn.      *)
C18_RetrievalFailureUnclear ==
    ( /\ turn.fn = "answer"
      /\ Called(turn, "retrieve_context")
      /\ RetrievalFailed(turn.env.retrieval) )
    => /\ retrieve_context(turn.env.retrieval) = <<None, 100, <<>>>>
       /\ turn.out.is_unclear = TRUE
       /\ turn.out.source = UnclearQueryTag
       /\ turn.out.llm_raw = Some(UNCLEAR_QUERY_RESPONSE)
       /\ turn.out.distance = Some(100)
       /\ turn.out.top_k_metadata_list = <<>>
       /\ ~Called(turn, "generate")
       /\ ~Called(turn, "save_answer_to_cache")
       /\ turn.saved = None
       /\ cache = turn.pre

(* C18 witness: the index returned no documents on a turn that missed a    *)
(* populated cache, and the turn ended unclear. *)
C18_Witness ==
    /\ turn.fn = "answer"
    /\ Called(turn, "retrieve_context")
    /\ turn.env.retrieval = Returned(<<>>)
    /\ turn.pre # <<>>
    /\ turn.out.is_unclear

-----------------------------------------------------------------------------
(* SpecRegen: regenerate_answer and answer_query_with_cache_first called   *)
(* on the same query with the same outcomes of translation, cleaning,      *)
(* retrieval and generation; the main path runs on an empty cache and on   *)
(* queries without small-talk triggers, so it misses both                  *)

RegenQueries == {Q_SIG, Q_SIGM, Q_BELOW, Q_HINDI}

CompareCall(raw_query, e, main, regen) ==
    [fn |-> "compare", raw_query |-> raw_query, env |-> e,
     bridged |-> Bridged(raw_query, e.lang, e.to_en, e.english),
     main |-> main, regen |-> regen]

Compare ==
    /\ \E raw_query \in RegenQueries :
          \E e \in TurnEnvs(raw_query, <<>>) :
             trace' = <<CompareCall(raw_query, e,
                                    answer_query_with_cache_first(raw_query, 1, <<>>, e).out,
                                    regenerate_answer(raw_query, e))>>
    /\ UNCHANGED <<cache, sess, turn, ratios>>

NextRegen == Compare

SpecRegen == Init /\ [][NextRegen]_vars

(* the class of a source tag, the elapsed time left out *)
SourceClass(source) ==
    IF StartsWith(source, <<"Gemini", " ", "API">>) THEN "Gemini API"
    ELSE IF StartsWith(source, <<"Gemini", " ", "Error">>) THEN "Gemini Error"
    ELSE IF source = UnclearQueryTag THEN "Unclear Query"
    ELSE "other"

(* C19 (as claimed): for a query that passes translation, regenerate_answer *)
(* returns, given the same cleaning, retrieval and generation results, the *)
(* same answer text, is_unclear flag, raw pivot answer and source class as *)
(* answer_query_with_cache_first on a small-talk miss and cache miss; an   *)
(* over-threshold distance gives source "Unclear Query" in both.           *)
C19_RegenInterchangeable ==
    \A n \in 1..Len(trace) :
        (trace[n].fn = "compare" /\ ~StartsWith(trace[n].bridged[2], <<"ERROR">>)) =>
            /\ trace[n].regen.answer_text = trace[n].main.answer_text
            /\ trace[n].regen.is_unclear = trace[n].main.is_unclear
            /\ trace[n].regen.llm_raw = trace[n].main.llm_raw
            /\ SourceClass(trace[n].regen.source) = SourceClass(trace[n].main.source)
            /\ DOMAIN trace[n].regen = DOMAIN trace[n].main
            /\ BestDistance(trace[n].env.retrieval) > UNCLEAR_QUERY_THRESHOLD =>
                  /\ trace[n].regen.source = UnclearQueryTag
                  /\ trace[n].main.source = UnclearQueryTag

-----------------------------------------------------------------------------
(* SpecStore: turns of answer_query_with_cache_first over a cache store    *)
(* whose connections may fail with sqlite3.Error, on read and on write     *)

SqliteError == "sqlite3.Error"

StoreOutcomes == {"ok", SqliteError}

StoreQueries == {Q_SIG, Q_BELOW, Q_HELLO}

(* get_cached_answer(query) has no handler around its connection and its   *)
(* SELECTs: a store error leaves it as an exception *)
get_cached_answer_on(read, c, query) ==
    IF read = SqliteError THEN Raised(SqliteError) ELSE Returned(get_cached_answer(c, query))

(* save_answer_to_cache(query, answer, source) catches sqlite3.Error and   *)
(* logs it: the table is left as it was *)
save_answer_to_cache_on(write, c, saved) ==
    IF write = SqliteError THEN c ELSE saved

(* answer_query_with_cache_first over the store: r is the turn over a      *)
(* working store; step 4 has no handler around get_cached_answer, so its   *)
(* exception ends the call; the write of step 8 goes through               *)
(* save_answer_to_cache *)
StoreTurnResult(read, write, c, r) ==
    IF Called(r, "get_cached_answer") /\ get_cached_answer_on(read, c, r.english_query).kind = "raise"
    THEN [kind |-> "raise", value |-> SqliteError, out |-> <<>>, cache |-> c,
          calls |-> <<"calculate_conversion_score", "to_english", "check_small_talk", "get_cached_answer">>]
    ELSE [kind |-> "return", value |-> "", out |-> r.out,
          cache |-> save_answer_to_cache_on(write, c, r.cache), calls |-> r.calls]

StoreTurnRecord(raw_query, read, write, e, pre, r, res) ==
    [fn |-> "store turn", raw_query |-> raw_query, read |-> read, write |-> write,
     env |-> e, pre |-> pre, kind |-> res.kind, value |-> res.value, out |-> res.out,
     calls |-> res.calls, working |-> r.out, saved |-> r.saved]

ApplyStore(raw_query, read, write, e, r, res) ==
    /\ cache' = res.cache
    /\ turn' = StoreTurnRecord(raw_query, read, write, e, cache, r, res)
    /\ sess' = IF res.kind = "return"
               THEN [sess EXCEPT !.conversion_score = res.out.conversion_score]
               ELSE sess

StoreTurnOn(raw_query, read, write, e, r) ==
    ApplyStore(raw_query, read, write, e, r, StoreTurnResult(read, write, cache, r))

StoreTurn ==
    /\ \E raw_query \in StoreQueries, read \in StoreOutcomes, write \in StoreOutcomes :
          \E e \in TurnEnvs(raw_query, cache) :
             StoreTurnOn(raw_query, read, write, e,
                         answer_query_with_cache_first(raw_query, sess.conversion_score, cache, e))
    /\ UNCHANGED <<trace, ratios>>

NextStore == StoreTurn

SpecStore == Init /\ [][NextStore]_vars

OutcomeFields ==
    {"answer_text", "source", "distance", "top_k_metadata_list", "is_unclear",
     "llm_raw", "detected_lang_code", "conversion_score"}

(* C20 (as claimed): a turn over a failing cache store returns a           *)
(* well-formed outcome and raises nothing; when the read fails the turn    *)
(* goes on as a cache miss through cleaning and retrieval, and when the    *)
(* write fails the generated answer is returned as over a working store.   *)
C20_CacheUnavailableNeverBlocks ==
    turn.fn = "store turn" =>
        /\ turn.kind = "return"
        /\ DOMAIN turn.out = OutcomeFields
        /\ (turn.read = SqliteError /\ Called(turn, "get_cached_answer")) =>
              /\ Called(turn, "clean_query_with_gemini")
              /\ Called(turn, "retrieve_context")
        /\ (turn.write = SqliteError /\ turn.saved # None) => turn.out = turn.working

-----------------------------------------------------------------------------
(* SpecRace: two turns of answer_query_with_cache_first for the same       *)
(* question running concurrently over one cache table.  A turn touches the *)
(* table twice: the SELECT of get_cached_answer (step 4) and the INSERT OR *)
(* IGNORE of save_answer_to_cache (step 8); each statement is atomic in    *)
(* the store, everything between them runs on what the SELECT returned.    *)
(* Rows are only ever added here, so the second SELECT of                  *)
(* get_cached_answer (by key) reads what the first one saw.                *)

Turns == 1..2

RaceQueries == {Q_SIG, Q_BELOW}

RaceCleanReplies == {Raised("RequestException"), Returned(Q_SIG)}

RaceRetrievalReplies == {Returned(<<Hit(Some(URL1), 20)>>), Returned(<<Hit(Some(URL1), 66)>>)}

RaceGenerationReplies == {Raised("RequestException"), Returned(A1), Returned(A2)}

RaceTurn(pc, entries, r) == [pc |-> pc, entries |-> entries, out |-> r.out, calls |-> r.calls, saved |-> r.saved]

NotStarted == [pc |-> "start", entries |-> <<>>, out |-> <<>>, calls |-> <<>>, saved |-> None]

InitRace ==
    /\ cache = <<>>
    /\ trace = <<>>
    /\ sess = NoSess
    /\ \E raw_query \in RaceQueries :
          turn = [fn |-> "race", raw_query |-> raw_query, turns |-> [i \in Turns |-> NotStarted]]
    /\ ratios = RatioTable

(* cursor.execute("SELECT query, answer, source FROM cache"); fetchall() *)
RaceSelect(i) ==
    /\ turn.turns[i].pc = "start"
    /\ turn' = [turn EXCEPT !.turns[i].pc = "selected", !.turns[i].entries = cache]
    /\ UNCHANGED <<cache, trace, sess, ratios>>

(* the turn from the rows it read up to its cache write: a hit or an       *)
(* unwritten outcome ends it, otherwise the row of step 8 is pending *)
RaceAnswered(i, r) ==
    turn' = [turn EXCEPT !.turns[i] = RaceTurn(IF r.saved = None THEN "done" ELSE "generated",
                                               turn.turns[i].entries, r)]

RaceAnswer(i) ==
    /\ turn.turns[i].pc = "selected"
    /\ \E e \in TurnEnvsOf(turn.raw_query, turn.turns[i].entries, RaceCleanReplies, RaceRetrievalReplies, RaceGenerationReplies) :
          RaceAnswered(i, answer_query_with_cache_first(turn.raw_query, 1, turn.turns[i].entries, e))
    /\ UNCHANGED <<cache, trace, sess, ratios>>

(* save_answer_to_cache(cleaned_english_question, final_english_answer,    *)
(* cache_source_tag) on the table as it is now *)
RaceWrite(i) ==
    /\ turn.turns[i].pc = "generated"
    /\ cache' = save_answer_to_cache(cache, turn.turns[i].saved[1].query,
                                     turn.turns[i].saved[1].answer, turn.turns[i].saved[1].source)
    /\ turn' = [turn EXCEPT !.turns[i].pc = "done"]
    /\ UNCHANGED <<trace, sess, ratios>>

NextRace == \E i \in Turns : RaceSelect(i) \/ RaceAnswer(i) \/ RaceWrite(i)

SpecRace == InitRace /\ [][NextRace]_vars

(* both turns missed the cache, generated and wrote the same question *)
BothWrote ==
    /\ \A i \in Turns : turn.turns[i].pc = "done" /\ turn.turns[i].saved # None
    /\ turn.turns[1].saved[1].query = turn.turns[2].saved[1].query

(* C21: in every state of two concurrent turns for one question no        *)
(* question has more than one row and every row is, whole, the (question,  *)
(* answer, source) written by one of the turns; once both turns have       *)
(* missed, generated and written the same question, the table holds        *)
(* exactly one row for it.                                                 *)
C21_BenignDuplicateWrite ==
    turn.fn = "race" =>
        /\ \A n \in 1..Len(cache) : Cardinality(RowsFor(cache, cache[n].query)) = 1
        /\ \A n \in 1..Len(cache) : \E i \in Turns : turn.turns[i].saved = Some(cache[n])
        /\ BothWrote => Cardinality(RowsFor(cache, turn.turns[1].saved[1].query)) = 1

C21_Witness ==
    /\ turn.fn = "race"
    /\ BothWrote
    /\ turn.turns[1].saved # turn.turns[2].saved
    /\ \A i \in Turns : turn.turns[i].entries = <<>>
    /\ Len(cache) = 1

-----------------------------------------------------------------------------
(* The order of the steps of one turn, checked under Spec                  *)

(* the order of steps the specification gives; the unclear gate is the     *)
(* branch between retrieve_context and the generation request *)
StepOrder ==
    <<"to_english", "check_small_talk", "get_cached_answer", "clean_query_with_gemini",
      "retrieve_context", "calculate_conversion_score", "generate",
      "save_answer_to_cache", "from_english">>

StepRank(name) == CHOOSE k \in 1..Len(StepOrder) : StepOrder[k] = name

(* C22 (as claimed): the steps a turn executes occur in the order          *)
(* translate, small-talk check, cache lookup, clean, retrieve, score       *)
(* update, gate, generate, cache write, back-translate: a step that ran    *)
(* earlier never stands later in this sequence.                            *)
C22_FixedStepOrder ==
    turn.fn = "answer" =>
        \A i, j \in 1..Len(turn.calls) :
            i < j => StepRank(turn.calls[i]) < StepRank(turn.calls[j])

-----------------------------------------------------------------------------
(* The feedback loop, checked under SpecSession                            *)

(* the user liked the regenerated message at turn.index, which carries     *)
(* query_to_cache = (cleaned question, a', source) *)
LikedRegenerated ==
    /\ turn.fn = "like"
    /\ sess.messages[turn.index + 1].query_to_cache # None

(* what a main-path turn with the same pivot query now finds in the cache *)
LookupAfterLike == get_cached_answer(cache, sess.messages[turn.index].translated_query)

(* C23 (as claimed): after dislike, a regeneration with a non-fallback     *)
(* answer a' and a like, a cache lookup for the same query that hits       *)
(* returns a', not the disliked answer.                                    *)
C23_LikeAfterRegenPersists ==
    (LikedRegenerated /\ LookupAfterLike # None) =>
        LookupAfterLike[1] = sess.messages[turn.index + 1].query_to_cache[1][2]

-----------------------------------------------------------------------------
(* The floor of the scorer, checked under SpecScore                        *)

(* C25: calculate_conversion_score(q, s) is at least 2 for every non-empty *)
(* query q and every s >= 1, and is s itself for the empty query.          *)
C25_ScoreFloor ==
    \A n \in 1..Len(trace) :
        (trace[n].fn = "score" /\ trace[n].s >= 1) =>
            /\ trace[n].q # <<>> => trace[n].ret >= 2
            /\ trace[n].q = <<>> => trace[n].ret = trace[n].s

(* C25 witness: a keyword-free query lifts a score of 1 to the floor, and  *)
(* the call is not the empty-query case *)
C25_Witness ==
    \E n \in 1..Len(trace) :
        /\ trace[n].fn = "score"
        /\ trace[n].q = <<"h", "i">>
        /\ trace[n].s = 1
        /\ trace[n].ret = 2

-----------------------------------------------------------------------------
(* SpecBranch: turns of answer_query_with_cache_first on queries with and  *)
(* without scoring keywords, over every branch of the function             *)

BranchQueries == {Q_DEMO, Q_ABOUT, Q_HELLO, Q_SIG}

BranchCleanReplies == {Raised("RequestException")}

BranchRetrievalReplies == {Raised("Exception"), Returned(<<Hit(Some(URL1), 20)>>)}

BranchGenerationReplies == {Raised("RequestException"), Returned(A1)}

BranchTurn == TurnWith(BranchQueries, BranchCleanReplies, BranchRetrievalReplies, BranchGenerationReplies)

NextBranch == BranchTurn

SpecBranch == Init /\ [][NextBranch]_vars

(* C24: on every branch (small talk, cache hit, unclear, answered,         *)
(* generation failed) the outcome carries                                  *)
(* conversion_score = calculate_conversion_score(raw query, the caller's   *)
(* current score).                                                         *)
C24_ScoreOnEveryBranch ==
    turn.fn = "answer" =>
        turn.out.conversion_score = calculate_conversion_score(turn.raw_query, turn.current_score)

(* C24 witness: a cache hit on a query with a scoring keyword, returned    *)
(* with a score above the caller's *)
C24_Witness ==
    /\ CacheHitTurn(turn)
    /\ StartsWith(turn.out.source, <<"Cache", " ", "HIT">>)
    /\ turn.current_score >= 2
    /\ turn.out.conversion_score > turn.current_score

-----------------------------------------------------------------------------
(* The history passed to a turn, checked under SpecSessionScore            *)

(* the user queries of the chat before the one the last turn answered: the *)
(* answered query is the last user message *)
PriorQueries(messages) ==
    SubSeq(HistoryQueries(messages), 1, Len(HistoryQueries(messages)) - 1)

(* C26 (as claimed): the history string passed to                          *)
(* answer_query_with_cache_first is the at most 3 most recent prior user   *)
(* queries, in order, joined by the separator, the query being answered    *)
(* not among them.                                                         *)
C26_HistoryWindow ==
    turn.fn = "main turn" =>
        turn.history = Join(LastN(PriorQueries(sess.messages), num_turns), <<" | ">>)

-----------------------------------------------------------------------------
(* SpecLive: answer_query_with_cache_first run call by call.  The function *)
(* blocks at its calls to the outside (translation, cleaning, the vector   *)
(* index, generation, translation back); each such call returns, fails or  *)
(* times out, and the function then runs on to its next call and at last   *)
(* to its return statement.  How each outside call of a run will end is    *)
(* drawn when the run starts.  The cache store works.                      *)

LiveQueries == {Q_SIG, Q_HELLO, Q_HINDI}

Timeout == Raised("Timeout")

LiveCleanReplies == {Timeout, Returned(Q_SIG)}

LiveRetrievalReplies == {Raised("Exception"), Returned(<<Hit(Some(URL1), 20)>>)}

LiveGenerationReplies == {Timeout, NoText, Returned(A1)}

OutsideCalls == {"to_english", "clean_query_with_gemini", "retrieve_context", "generate", "from_english"}

(* a run of the function: r is what the function does on the answers e,    *)
(* pos the call of r.calls it is at; Len(r.calls) + 1 is the return        *)
(* statement and Len(r.calls) + 2 the caller after the return *)
Invocation(raw_query, current_score, e, r, pos, out) ==
    [fn |-> "invocation", raw_query |-> raw_query, current_score |-> current_score,
     env |-> e, calls |-> r.calls, result |-> r.out, table |-> r.cache,
     pos |-> pos, out |-> out]

HasReturned == turn.fn = "invocation" /\ turn.pos = Len(turn.calls) + 2 /\ turn.raw_query # <<>>

AtCall(name) == turn.pos <= Len(turn.calls) /\ turn.calls[turn.pos] = name

InitLive ==
    /\ cache = <<>>
    /\ trace = <<>>
    /\ sess = NoSess
    /\ turn = [fn |-> "invocation", raw_query |-> <<>>, current_score |-> 1, env |-> <<>>,
               calls |-> <<>>, result |-> <<>>, table |-> <<>>, pos |-> 2, out |-> <<>>]
    /\ ratios = RatioTable

(* the caller invokes the function with its current score *)
Invoke ==
    /\ turn.pos = Len(turn.calls) + 2
    /\ \E raw_query \in LiveQueries :
          \E e \in TurnEnvsOf(raw_query, cache, LiveCleanReplies, LiveRetrievalReplies, LiveGenerationReplies) :
             turn' = Invocation(raw_query, sess.conversion_score, e,
                                answer_query_with_cache_first(raw_query, sess.conversion_score, cache, e),
                                1, <<>>)
    /\ UNCHANGED <<cache, trace, sess, ratios>>

(* the outside call `name` comes back and the function runs on *)
CallReturns(name) ==
    /\ AtCall(name)
    /\ turn' = [turn EXCEPT !.pos = @ + 1]
    /\ UNCHANGED <<cache, trace, sess, ratios>>

TranslationReturns == CallReturns("to_english")

CleaningReturns == CallReturns("clean_query_with_gemini")

RetrievalReturns == CallReturns("retrieve_context")

GenerationReturns == CallReturns("generate")

TranslationBackReturns == CallReturns("from_english")

(* a step of the function that calls nothing outside: the scorer, the      *)
(* small-talk table, the cache lookup; the cache write takes effect here *)
LocalStep ==
    /\ turn.pos <= Len(turn.calls)
    /\ turn.calls[turn.pos] \notin OutsideCalls
    /\ turn' = [turn EXCEPT !.pos = @ + 1]
    /\ cache' = IF turn.calls[turn.pos] = "save_answer_to_cache" THEN turn.table ELSE cache
    /\ UNCHANGED <<trace, sess, ratios>>

(* the return statement; the caller takes the outcome and the score *)
Return ==
    /\ turn.pos = Len(turn.calls) + 1
    /\ turn' = [turn EXCEPT !.pos = @ + 1, !.out = turn.result]
    /\ sess' = [sess EXCEPT !.conversion_score = turn.result.conversion_score]
    /\ UNCHANGED <<cache, trace, ratios>>

NextLive ==
    \/ Invoke
    \/ TranslationReturns
    \/ CleaningReturns
    \/ RetrievalReturns
    \/ GenerationReturns
    \/ TranslationBackReturns
    \/ LocalStep
    \/ Return

(* every outside call eventually returns, fails or times out, and the      *)
(* function itself keeps running *)
CallsComeBack ==
    /\ WF_vars(TranslationReturns)
    /\ WF_vars(CleaningReturns)
    /\ WF_vars(RetrievalReturns)
    /\ WF_vars(GenerationReturns)
    /\ WF_vars(TranslationBackReturns)
    /\ WF_vars(LocalStep)
    /\ WF_vars(Return)

SpecLive == InitLive /\ [][NextLive]_vars /\ CallsComeBack

(* the terminal state an outcome belongs to, by its source tag *)
TerminalState(out) ==
    IF out.source = TranslationErrorTag THEN "TRANSLATION_FAILED"
    ELSE IF out.source = SmallTalkTag THEN "SMALL_TALK"
    ELSE IF StartsWith(out.source, CacheHitPrefix) THEN "CACHE_HIT"
    ELSE IF out.source = UnclearQueryTag THEN "UNCLEAR"
    ELSE IF out.source \in {GeminiApiTag, GeminiErrorTag} THEN "ANSWERED"
    ELSE "none"

-----------------------------------------------------------------------------
(* The Day_19 engine: src/Day_19_C.py with src/Day_19_E.py.  Its cleaning, *)
(* retrieval, generation handlers, cache table and cache cutoff read as    *)
(* those of rough/Day_21_C.py and are modelled by the same operators; its  *)
(* small-talk table has one more key ("created you who"), which none of    *)
(* the queries below contains.  The last field of its outcome is a lead    *)
(* score, in tenths.                                                       *)

LEAD_TRIGGER_KEYWORDS ==
    << <<"E","R","P">>,
       <<"L","M","S">>,
       <<"l","e","a","n"," ","m","a","s","t","e","r">>,
       <<"d","e","m","o">>,
       <<"c","e","r","t","i","f","i","c","a","t","i","o","n">>,
       <<"3","P">>,
       <<"g","e","m","b","a"," ","k","a","i","z","e","n">>,
       <<"c","o","u","r","s","e","s">>,
       <<"s","o","f","t","w","a","r","e"," ","s","o","l","u","t","i","o","n","s">>,
       <<"I","M","S">>,
       <<"c","o","n","s","u","l","t","i","n","g"," ","s","e","r","v","i","c","e","s">>,
       <<"o","p","e","x">>,
       <<"s","i","x"," ","s","i","g","m","a">>,
       <<"L","E","A","N">> >>

(* LEAD_SCORE_WEIGHTS: the distance threshold in hundredths, the scores in *)
(* tenths *)
LEAD_SCORE_WEIGHTS ==
    [distance_threshold |-> 50, low_distance_score |-> 10,
     history_turn_score |-> 5, keyword_score_trigger |-> 20]

(* len(history_queries.split('|')) if history_queries.strip() else 0 *)
TurnCount(history_queries) ==
    IF Strip(history_queries) = <<>> THEN 0 ELSE Len(Split(history_queries, "|"))

(* calculate_lead_score(query, history_queries, distance); the keywords are *)
(* compared as written with the lower-cased query *)
calculate_lead_score(query, history_queries, distance) ==
    (IF distance # None /\ distance[1] < LEAD_SCORE_WEIGHTS.distance_threshold
     THEN LEAD_SCORE_WEIGHTS.low_distance_score ELSE 0)
    + Min2(TurnCount(history_queries), 3) * LEAD_SCORE_WEIGHTS.history_turn_score
    + (IF ContainsAny(Lower(query), LEAD_TRIGGER_KEYWORDS)
       THEN LEAD_SCORE_WEIGHTS.keyword_score_trigger ELSE 0)

(* the 8-tuple the Day_19 functions return *)
Day_19_Outcome(answer, source, distance, top_k_metadata_list, is_unclear, query_to_cache, detected_lang_code, lead_score) ==
    [answer |-> answer, source |-> source, distance |-> distance,
     top_k_metadata_list |-> top_k_metadata_list, is_unclear |-> is_unclear,
     query_to_cache |-> query_to_cache, detected_lang_code |-> detected_lang_code,
     lead_score |-> lead_score]

(* how a call ends: it returns an outcome or an exception leaves it *)
Day_19_Returns(out, c) == [kind |-> "return", exc |-> "", out |-> out, cache |-> c]

Day_19_Raises(exc, c) == [kind |-> "raise", exc |-> exc, out |-> <<>>, cache |-> c]

(* regenerate_answer of src/Day_19_C.py: 5. translation back, 6. the cache *)
(* data, and the return statement *)
Day_19_RegenReturn(e, detected_lang_code, cleaned_english_question, distance, top_k_metadata_list, lead_score, is_unclear, source, final_english_answer) ==
    Day_19_Outcome(TranslateBack(e, final_english_answer, detected_lang_code),
                   source, distance, top_k_metadata_list, is_unclear,
                   IF ~is_unclear /\ ~StartsWith(source, GeminiErrorTag)
                   THEN Some(<<cleaned_english_question, final_english_answer,
                               RegenSourceTag(top_k_metadata_list)>>)
                   ELSE None,
                   detected_lang_code, lead_score)

(* the gate and 4. generation *)
Day_19_RegenGate(e, detected_lang_code, cleaned_english_question, distance, top_k_metadata_list, lead_score) ==
    IF RegenGate(distance)
    THEN Day_19_RegenReturn(e, detected_lang_code, cleaned_english_question, distance,
                            top_k_metadata_list, lead_score, TRUE,
                            RegenUnclearTag, FINAL_FALLBACK_MESSAGE)
    ELSE Day_19_RegenReturn(e, detected_lang_code, cleaned_english_question, distance,
                            top_k_metadata_list, lead_score, FALSE,
                            RegenGenerate(e.generation).source, RegenGenerate(e.generation).answer)

(* 2. clean, 3. retrieve, and the lead score *)
Day_19_RegenRetrieve(e, detected_lang_code, cleaned_english_question, retrieved) ==
    Day_19_RegenGate(e, detected_lang_code, cleaned_english_question,
                     Some(retrieved[2]), retrieved[3],
                     calculate_lead_score(cleaned_english_question, <<>>, Some(retrieved[2])))

(* 1. translation and its gate *)
Day_19_RegenTranslation(e, bridged) ==
    IF TranslationFailed(bridged[2])
    THEN Day_19_Outcome(LANGUAGE_FAIL_MESSAGE, TranslationErrorTag, Some(100), <<>>, TRUE,
                        None, Split(bridged[2], "-")[2], 0)
    ELSE Day_19_RegenRetrieve(e, bridged[2], clean_query_with_gemini(bridged[1], e.clean),
                              retrieve_context(e.retrieval))

(* regenerate_answer(raw_query, chroma_collection) of src/Day_19_C.py,     *)
(* called with the default history *)
Day_19_regenerate_answer(raw_query, e) ==
    Day_19_RegenTranslation(e, Bridged(raw_query, e.lang, e.to_en, e.english))

(* answer_query_with_cache_first of src/Day_19_C.py: 6. generation, 7. the *)
(* cache write and the translation, and the final return *)
Day_19_Generate(c, e, detected_lang_code, cleaned_english_question, distance, top_k_metadata_list, lead_score, source, final_english_answer) ==
    Day_19_Returns(Day_19_Outcome(IF final_english_answer # <<>>
                                  THEN TranslateBack(e, final_english_answer, detected_lang_code)
                                  ELSE FINAL_FALLBACK_MESSAGE,
                                  source, distance, top_k_metadata_list, FALSE, None,
                                  detected_lang_code, lead_score),
                   IF MayCache(source, final_english_answer)
                   THEN save_answer_to_cache(c, cleaned_english_question, final_english_answer,
                                             CacheSourceTag(top_k_metadata_list))
                   ELSE c)

(* the unclear branch returns unclear_response_in_lang, a local that is    *)
(* assigned only further down, after the else branch: UnboundLocalError *)
Day_19_Gate(c, e, detected_lang_code, cleaned_english_question, distance, top_k_metadata_list, lead_score) ==
    IF UnclearGate(distance)
    THEN Day_19_Raises("UnboundLocalError", c)
    ELSE Day_19_Generate(c, e, detected_lang_code, cleaned_english_question, distance,
                         top_k_metadata_list, lead_score,
                         Generate(e.generation).source, Generate(e.generation).answer)

(* 4. clean, 5. retrieve, and the lead score *)
Day_19_Retrieve(c, e, detected_lang_code, cleaned_english_question, retrieved) ==
    Day_19_Gate(c, e, detected_lang_code, cleaned_english_question,
                Some(retrieved[2]), retrieved[3],
                calculate_lead_score(cleaned_english_question, <<>>, Some(retrieved[2])))

(* 3. the cache *)
Day_19_CheckCache(c, e, bridged, cached) ==
    IF cached # None
    THEN Day_19_Returns(Day_19_Outcome(TranslateBack(e, cached[1], bridged[2]),
                                       CacheHitTag(cached[3]), None, <<>>, FALSE, None,
                                       bridged[2], 0), c)
    ELSE Day_19_Retrieve(c, e, bridged[2], clean_query_with_gemini(bridged[1], e.clean),
                         retrieve_context(e.retrieval))

(* 2. small talk *)
Day_19_CheckSmallTalk(c, e, bridged, smalltalk_response) ==
    IF smalltalk_response # None /\ smalltalk_response[1] # <<>>
    THEN Day_19_Returns(Day_19_Outcome(TranslateBack(e, smalltalk_response[1], bridged[2]),
                                       SmallTalkTag, None, <<>>, FALSE, None, bridged[2], 0), c)
    ELSE Day_19_CheckCache(c, e, bridged, get_cached_answer(c, bridged[1]))

(* 1. translation and its gate *)
Day_19_Translation(c, e, bridged) ==
    IF TranslationFailed(bridged[2])
    THEN Day_19_Returns(Day_19_Outcome(LANGUAGE_FAIL_MESSAGE, TranslationErrorTag, Some(100),
                                       <<>>, TRUE, None, Split(bridged[2], "-")[2], 0), c)
    ELSE Day_19_CheckSmallTalk(c, e, bridged, check_small_talk(bridged[1]))

(* answer_query_with_cache_first(raw_query, chroma_collection) of          *)
(* src/Day_19_C.py on the table c, called with the default history *)
Day_19_answer_query_with_cache_first(raw_query, c, e) ==
    Day_19_Translation(c, e, Bridged(raw_query, e.lang, e.to_en, e.english))

(* SpecDay19: calls of the two entry points of src/Day_19_C.py *)

Day_19_Queries == {Q_SIG, Q_HELLO, Q_HINDI}

Day_19_CleanReplies == {Raised("RequestException"), Returned(Q_SIG)}

Day_19_RetrievalReplies ==
    {Raised("Exception"),
     Returned(<<Hit(Some(URL1), 20)>>),
     Returned(<<Hit(Some(URL1), 66)>>)}

Day_19_GenerationReplies == {Raised("RequestException"), NoText, Returned(A1)}

Day_19_Answer ==
    /\ \E raw_query \in Day_19_Queries :
          \E e \in TurnEnvsOf(raw_query, cache, Day_19_CleanReplies, Day_19_RetrievalReplies, Day_19_GenerationReplies) :
             /\ turn' = [fn |-> "Day_19 answer", raw_query |-> raw_query, env |-> e,
                         result |-> Day_19_answer_query_with_cache_first(raw_query, cache, e)]
             /\ cache' = Day_19_answer_query_with_cache_first(raw_query, cache, e).cache
    /\ UNCHANGED <<trace, sess, ratios>>

Day_19_Regenerate ==
    /\ \E raw_query \in Day_19_Queries :
          \E x \in RegenEnvsFrom(raw_query, {}, Day_19_RetrievalReplies, Day_19_GenerationReplies) :
             \E cl \in Day_19_CleanReplies :
                turn' = [fn |-> "Day_19 regenerate", raw_query |-> raw_query,
                         env |-> [x.env EXCEPT !.clean = cl],
                         result |-> Day_19_regenerate_answer(raw_query, [x.env EXCEPT !.clean = cl])]
    /\ UNCHANGED <<cache, trace, sess, ratios>>

NextDay19 == Day_19_Answer \/ Day_19_Regenerate

SpecDay19 == Init /\ [][NextDay19]_vars

(* C28 (as claimed): in answer_query_with_cache_first of src/Day_19_C.py,  *)
(* whenever the best distance exceeds UNCLEAR_QUERY_THRESHOLD the call     *)
(* returns the canned unclear response in the detected language with       *)
(* source "Unclear Query" and is_unclear = true; no exception escapes.     *)
C28_Day19UnclearReturns ==
    (/\ turn.fn = "Day_19 answer"
     /\ turn.env.retrieval # NotCalled
     /\ BestDistance(turn.env.retrieval) > UNCLEAR_QUERY_THRESHOLD) =>
        /\ turn.result.kind = "return"
        /\ turn.result.out.source = UnclearQueryTag
        /\ turn.result.out.is_unclear
        /\ turn.result.out.answer = TranslateBack(turn.env, UNCLEAR_QUERY_RESPONSE, turn.result.out.detected_lang_code)

(* C29 (as claimed): regenerate_answer of src/Day_19_C.py returns          *)
(* query_to_cache = None whenever the regenerated English answer is the    *)
(* fixed fallback message, the reply without text included: a tuple it     *)
(* returns for a later like never carries the fallback message.            *)
C29_Day19RegenNeverOffersFallback ==
    (turn.fn = "Day_19 regenerate" /\ turn.result.query_to_cache # None) =>
        turn.result.query_to_cache[1][2] # FINAL_FALLBACK_MESSAGE

-----------------------------------------------------------------------------
(* The cache of the deployed backend: src/app/Day_19_E.py.  Its table      *)
(* names the key column `question` (TEXT UNIQUE); the rows keep the field  *)
(* name `query` of Row here.                                               *)

(* get_cached_answer(cleaned_question): SELECT answer, source, question    *)
(* FROM cache WHERE question = ?; fetchone(); the row's three columns or   *)
(* None *)
app_get_cached_answer(c, cleaned_question) ==
    FetchOne(c, cleaned_question, {i \in 1..Len(c) : c[i].query = cleaned_question})

(* save_answer_to_cache(cleaned_question, answer, source): INSERT ... ON   *)
(* CONFLICT(question) DO UPDATE SET answer, source *)
app_save_answer_to_cache(c, cleaned_question, answer, source) ==
    IF HasRow(c, cleaned_question)
    THEN [i \in 1..Len(c) |->
             IF c[i].query = cleaned_question THEN Row(cleaned_question, answer, source) ELSE c[i]]
    ELSE Append(c, Row(cleaned_question, answer, source))

(* SpecAppCache: saves and lookups in any order on a table that starts     *)
(* empty *)

AppSave ==
    /\ Len(trace) < MaxOps
    /\ \E q \in StoredQs, a \in CacheAnswers, s \in CacheSources :
          /\ cache' = app_save_answer_to_cache(cache, q, a, s)
          /\ trace' = Append(trace, Call("app save", q, a, s, cache, None))
    /\ UNCHANGED <<sess, turn, ratios>>

(* cached = get_cached_answer(english) in answer_query_with_cache_first of *)
(* src/app/Day_19_C.py *)
AppGet ==
    /\ Len(trace) < MaxOps
    /\ \E q \in ProbeQs :
          trace' = Append(trace, Call("app get", q, None, None, cache,
                                      app_get_cached_answer(cache, q)))
    /\ UNCHANGED <<cache, sess, turn, ratios>>

NextAppCache == AppSave \/ AppGet

SpecAppCache == InitCache /\ [][NextAppCache]_vars

(* C30 (as claimed): get_cached_answer of src/app/Day_19_E.py returns a    *)
(* hit for a query that is identical to no stored question but whose       *)
(* similarity to a stored question is >= 0.85, and reports a stored        *)
(* question as the match.                                                  *)
C30_AppFuzzyLookup ==
    \A n \in 1..Len(trace) :
        (/\ trace[n].fn = "app get"
         /\ ~HasRow(trace[n].pre, trace[n].q)
         /\ \E i \in 1..Len(trace[n].pre) : RatioAtLeastThreshold(trace[n].pre[i].query, trace[n].q)) =>
            /\ trace[n].ret # None
            /\ HasRow(trace[n].pre, trace[n].ret[3])
            /\ RatioAtLeastThreshold(trace[n].ret[3], trace[n].q)

-----------------------------------------------------------------------------
(* Shape of the outcome of one turn, checked under Spec                    *)

(* the outcome comes from the small-talk return or the cache-hit return *)
SmallTalkOrCacheHit(t) ==
    \/ t.out.source = SmallTalkTag
    \/ StartsWith(t.out.source, CacheHitPrefix)

(* C31: for every outcome answer_query_with_cache_first returns,           *)
(* is_unclear is true iff the source tag is "Translation Error" or         *)
(* "Unclear Query", and distance is null iff the outcome is a small-talk   *)
(* or a cache-hit outcome.                                                 *)
C31_OutcomeFlagConsistency ==
    turn.fn = "answer" =>
        /\ turn.out.is_unclear <=> turn.out.source \in {TranslationErrorTag, UnclearQueryTag}
        /\ (turn.out.distance = None) <=> SmallTalkOrCacheHit(turn)
        /\ SmallTalkOrCacheHit(turn) <=> ~Called(turn, "retrieve_context") /\ Called(turn, "check_small_talk")

(* C31 witness: a turn whose retrieval came back above the threshold       *)
(* returned "Unclear Query" with is_unclear set and the distance it was    *)
(* given, on a table where another question is a cache hit. *)
C31_Witness ==
    /\ turn.fn = "answer"
    /\ turn.out.source = UnclearQueryTag
    /\ turn.out.is_unclear
    /\ turn.out.distance = Some(UNCLEAR_QUERY_THRESHOLD + 1)
    /\ turn.pre # <<>>


(* how many times a call appears among the calls of a turn *)
CallCount(t, name) == Cardinality({i \in 1..Len(t.calls) : t.calls[i] = name})

(* the place of the first such call, 0 when there is none *)
CallIndex(t, name) ==
    IF Called(t, name) THEN CHOOSE i \in 1..Len(t.calls) :
                               t.calls[i] = name /\ \A j \in 1..(i - 1) : t.calls[j] # name
    ELSE 0

(* the canonical URL of the top passage the retriever returned, or "RAG" *)
TopCanonicalOrRag(reply) ==
    IF reply.kind = "return" /\ reply.value # <<>> /\ reply.value[1].metadata.canonical # None
    THEN reply.value[1].metadata.canonical[1]
    ELSE RAG

(* C32 (as claimed): in one turn at most one answer-generation request and *)
(* at most one cache write are made; a cache write happens only after a    *)
(* successful generation in the same turn (a reply that raised, timed out, *)
(* or carried no text or empty text is a generation failure), and the row  *)
(* written is (the turn's cleaned question, the turn's raw pivot answer,   *)
(* the top passage's canonical URL or "RAG").                              *)
C32_OneGenerationOneWrite ==
    turn.fn = "answer" =>
        /\ CallCount(turn, "generate") <= 1
        /\ CallCount(turn, "save_answer_to_cache") <= 1
        /\ (turn.saved # None) <=> Called(turn, "save_answer_to_cache")
        /\ turn.saved # None =>
              /\ Called(turn, "generate")
              /\ CallIndex(turn, "generate") < CallIndex(turn, "save_answer_to_cache")
              /\ ~GenerationFailed(turn.env.generation)
              /\ turn.saved[1] = Row(turn.cleaned[1], turn.out.llm_raw[1],
                                     TopCanonicalOrRag(turn.env.retrieval))

(* C33 (as claimed): whenever the turn returns is_unclear = false with a   *)
(* source starting with "Gemini API", the raw pivot answer is a non-empty  *)
(* string, answer_text is the translation of the raw pivot answer and not  *)
(* the canned unclear message, and a row cached in that turn has a         *)
(* non-empty answer; also when the model returns empty or blank text.  A   *)
(* back-translation that fails gives the same failure message for every    *)
(* text, so the two texts are told apart only when it does not fail.       *)
C33_AnsweredOutcomeConsistent ==
    (/\ turn.fn = "answer"
     /\ ~turn.out.is_unclear
     /\ StartsWith(turn.out.source, <<"Gemini", " ", "API">>)) =>
        /\ turn.out.llm_raw # None
        /\ turn.out.llm_raw[1] # <<>>
        /\ turn.out.answer_text = ToUserLanguage(turn.env, turn.out.llm_raw[1], turn.out.detected_lang_code)
        /\ turn.env.from_en # "raise" =>
              turn.out.answer_text # TranslateBack(turn.env, UNCLEAR_QUERY_RESPONSE, turn.out.detected_lang_code)
        /\ turn.saved # None => turn.saved[1].answer # <<>>

-----------------------------------------------------------------------------
(* SpecFeedback: the chat loop of SpecSession on a question that is not    *)
(* small talk, so that every answer carries the feedback buttons.          *)
(* handle_feedback ends in st.rerun(), and the rerun reaches the           *)
(* regeneration block whenever regenerate_index is set: a pending          *)
(* regeneration is always executed.                                        *)

FeedbackQueries == {Q_BELOW}

FeedbackCleanReplies == {Raised("RequestException"), Returned(Q_SIG)}

FeedbackRetrievalReplies ==
    {Raised("Exception"), Returned(<<Hit(Some(URL1), UNCLEAR_QUERY_THRESHOLD)>>)}

FeedbackGenerationReplies == {Raised("RequestException"), Returned(A1), Returned(A2)}

FeedbackPrompt == PromptFrom(FeedbackQueries, MaxPrompts)

FeedbackProcessTurn ==
    ProcessTurnWith(FeedbackCleanReplies, FeedbackRetrievalReplies, FeedbackGenerationReplies)

FeedbackRegenerate ==
    RegenerateWith(FeedbackCleanReplies, FeedbackRetrievalReplies, FeedbackGenerationReplies)

NextFeedback ==
    Greet \/ FeedbackPrompt \/ FeedbackProcessTurn \/ Like \/ Dislike \/ FeedbackRegenerate \/ ClearChat

SpecFeedback == InitSession /\ [][NextFeedback]_vars /\ WF_vars(FeedbackRegenerate)

(* The cache under feedback, checked under SpecFeedback                    *)

(* the tags regenerate_answer alone gives to a message *)
RegeneratedTags == {GeminiRegenTag, GeminiErrorRegenTag, RegenUnclearTag}

(* the step was a main-path turn that ended ANSWERED *)
MainTurnAnswered ==
    /\ turn'.fn = "main turn"
    /\ StartsWith(sess'.messages[Len(sess'.messages)].source_tag, <<"Gemini", " ", "API">>)

(* the step was a like under a message that regeneration wrote *)
LikeOnRegenerated ==
    /\ turn'.fn = "like"
    /\ sess.messages[turn'.index + 1].source_tag \in RegeneratedTags

C34_Step ==
    /\ turn'.fn = "regenerate" => cache' = cache
    /\ turn'.fn = "dislike" => cache' = cache
    /\ (turn'.fn = "like" /\ ~LikeOnRegenerated) => cache' = cache
    /\ cache' # cache => MainTurnAnswered \/ LikeOnRegenerated

(* C34: the regeneration step never writes to the cache; in the session    *)
(* loop the cache changes outside a main-path ANSWERED turn only when the  *)
(* user likes a regenerated message; a like on a message that regeneration *)
(* did not produce, and any dislike, leave the cache unchanged.            *)
C34_CacheFrameUnderFeedback == [][C34_Step]_vars

(* C34 witness: the user liked a regenerated message and the update        *)
(* replaced the answer of the row the main turn had written. *)
C34_Witness ==
    /\ turn.fn = "like"
    /\ turn.updated = Some(TRUE)
    /\ sess.messages[turn.index + 1].source_tag = GeminiRegenTag
    /\ \E i \in 1..Len(cache) :
          /\ cache[i].query = sess.messages[turn.index + 1].query_to_cache[1][1]
          /\ cache[i].answer = sess.messages[turn.index + 1].query_to_cache[1][2]
          /\ cache[i].source = sess.messages[turn.index + 1].query_to_cache[1][3]

-----------------------------------------------------------------------------
(* The regeneration protocol, checked under SpecFeedback                   *)

RegenerationPending == sess.regenerate_index # -1

(* the regeneration step rewrote message idx and nothing else *)
OverwritesOnly(idx) ==
    /\ Len(sess'.messages) = Len(sess.messages)
    /\ \A j \in 1..Len(sess.messages) : j # idx + 1 => sess'.messages[j] = sess.messages[j]
    /\ sess.messages[idx + 1].role = "assistant"
    /\ sess'.messages[idx + 1].role = "assistant"
    /\ FeedbackGet(sess, idx) = Some("dislike")
    /\ sess'.messages[idx + 1].source_tag \in RegeneratedTags \cup {TranslationErrorTag}

C35_Step ==
    /\ (~RegenerationPending /\ RegenerationPending') =>
          turn'.fn = "dislike" /\ sess'.regenerate_index = turn'.index
    /\ RegenerationPending =>
          /\ turn'.fn = "regenerate"
          /\ turn'.index = sess.regenerate_index
          /\ OverwritesOnly(sess.regenerate_index)
          /\ sess'.conversion_score = sess.conversion_score
          /\ ~RegenerationPending'
    /\ turn'.fn = "regenerate" => RegenerationPending
    /\ turn'.fn \in {"main turn", "prompt"} => ~RegenerationPending

(* C35: regenerate_index differs from -1 only between a dislike and the    *)
(* regeneration step that follows it; while it is set no new user turn is  *)
(* answered; the regeneration step overwrites exactly the disliked         *)
(* assistant message at that index, leaves the number of messages, every   *)
(* other message and the session conversion_score unchanged, and resets    *)
(* regenerate_index to -1.                                                 *)
C35_RegenerationProtocol ==
    /\ [][C35_Step]_vars
    /\ RegenerationPending ~> (turn.fn = "regenerate" /\ ~RegenerationPending)

(* C35 witness: the regeneration that followed a dislike has rewritten the *)
(* answer below the one prompt of the chat; the chat still has its three   *)
(* messages and the score the main turn left. *)
C35_Witness ==
    /\ turn.fn = "regenerate"
    /\ ~RegenerationPending
    /\ FeedbackGet(sess, turn.index) = Some("dislike")
    /\ sess.messages[turn.index + 1].source_tag = GeminiRegenTag
    /\ sess.messages[turn.index + 1].query_to_cache # None
    /\ Len(sess.messages) = 3
    /\ sess.conversion_score = 2

=============================================================================
